---- MODULE Spec2Model ----
(***************************************************************************)
(* Model of the comparison generation engine of lxmpicturelab:             *)
(*   - libraries/lxmpicturelab/comparison.py   (generators, render,        *)
(*     session and their serialization)                                    *)
(*   - libraries/lxmpicturelab/renderer/_config.py (OcioConfigRenderer)    *)
(*   - libraries/lxmpicturelab/oiiotoolio.py   (command fragments)         *)
(*   - scripts/comparisons-generate.py         (generate_combine)          *)
(*                                                                         *)
(* Python values are modelled as follows.                                  *)
(*   str used as a path text : [t |-> "str", s |-> <<chars>>]              *)
(*   pathlib.Path            : [t |-> "Path", root |-> BOOLEAN,            *)
(*                              parts |-> <<component, ...>>]              *)
(*   None                    : [t |-> "None"]                              *)
(*   other str               : a TLA+ string                               *)
(*   float band_offset       : an integer number of hundredths             *)
(*   a raised exception      : the exception's class name in "exc"         *)
(***************************************************************************)
EXTENDS Integers, Sequences, FiniteSets, TLC

VARIABLES
    asset,      \* ComparisonSession.asset
    renders,    \* ComparisonSession.renders
    manifest,   \* the text returned by the last ComparisonSession.to_json
    descriptor, \* an OcioConfigRenderer held by the caller
    call,       \* the last call: op, origin (the object the argument was
                \* made from), arg, ret, exc
    frag,       \* the last command-fragment call: op, arg, ret, exc
    disk,       \* the directories that exist, each with the files in it
    proc        \* the script being run: its arguments, its position, what
                \* it has done, and how it ended

vars == <<asset, renders, manifest, descriptor, call, frag, disk, proc>>

(***************************************************************************)
(* Bounds of the model.                                                    *)
(***************************************************************************)
MaxRenders == 2
MaxBands == 9
MaxStep == 3
MaxImages == 30

(***************************************************************************)
(* Python values.                                                          *)
(***************************************************************************)
None == [t |-> "None"]

NoExc == ""

StrV(chars) == [t |-> "str", s |-> chars]

PathV(root, parts) == [t |-> "Path", root |-> root, parts |-> parts]

RECURSIVE JoinParts(_)
\* "/".join(parts) on texts that are sequences of characters
JoinParts(parts) ==
    IF parts = <<>> THEN <<>>
    ELSE IF Len(parts) = 1 THEN parts[1]
    ELSE parts[1] \o <<"/">> \o JoinParts(Tail(parts))

\* str(path) of a pathlib.PurePosixPath
PathStr(p) ==
    IF p.parts = <<>>
    THEN StrV(IF p.root THEN <<"/">> ELSE <<".">>)
    ELSE StrV((IF p.root THEN <<"/">> ELSE <<>>) \o JoinParts(p.parts))

RECURSIVE SplitParts(_, _, _)
\* the components of a path text: split on "/", empty and "." components
\* are dropped as pathlib does when it parses
SplitParts(chars, cur, acc) ==
    LET keep(part, parts) ==
            IF part = <<>> \/ part = <<".">> THEN parts ELSE Append(parts, part)
        slashes == {i \in 1..Len(chars) : chars[i] = "/"}
    IN IF slashes = {} THEN keep(cur \o chars, acc)
       ELSE LET first == CHOOSE i \in slashes : \A j \in slashes : i <= j
            IN SplitParts(SubSeq(chars, first + 1, Len(chars)), <<>>,
                          keep(cur \o SubSeq(chars, 1, first - 1), acc))

\* pathlib.Path(text)
PathOf(text) ==
    PathV(text.s # <<>> /\ Head(text.s) = "/", SplitParts(text.s, <<>>, <<>>))

RECURSIVE MapSeq(_, _)
\* [Op(x) for x in seq]
MapSeq(Op(_), seq) ==
    IF seq = <<>> THEN <<>> ELSE <<Op(Head(seq))>> \o MapSeq(Op, Tail(seq))

(***************************************************************************)
(* Outcome of a call: the returned value, or the exception it raised.      *)
(***************************************************************************)
Ok(value) == [exc |-> NoExc, ret |-> value]

Raise(name) == [exc |-> name, ret |-> None]

(***************************************************************************)
(* renderer/_config.py : OcioConfigRenderer                                *)
(***************************************************************************)
ACES20651_COLORSPACE == "@ACES2065-1@"

OcioFields ==
    {"name", "filename", "description", "config_path", "srgb_lin", "display",
     "view", "look", "src_colorspace", "source_url", "references"}

\* dataclasses.asdict(self), then config_path replaced by its text
OcioConfigRenderer_to_dict(self) ==
    [f \in OcioFields |->
        IF f = "config_path" THEN PathStr(self.config_path) ELSE self[f]]

\* self after to_dict: the text of config_path is written into the copy
\* asdict made, self keeps its fields
OcioConfigRenderer_after_to_dict(self) == self

\* variant of OcioConfigRenderer.from_dict that does not pass references, so
\* that the field takes its default
OcioConfigRenderer_from_dict_noref(as_dict) ==
    IF as_dict = None THEN Raise("TypeError")
    ELSE IF ~(OcioFields \subseteq DOMAIN as_dict) THEN Raise("KeyError")
    ELSE Ok([name |-> as_dict["name"],
             filename |-> as_dict["filename"],
             description |-> as_dict["description"],
             config_path |-> PathOf(as_dict["config_path"]),
             srgb_lin |-> as_dict["srgb_lin"],
             display |-> as_dict["display"],
             view |-> as_dict["view"],
             look |-> as_dict["look"],
             src_colorspace |-> as_dict["src_colorspace"],
             source_url |-> as_dict["source_url"],
             references |-> <<>>])

\* cls(name=as_dict["name"], ...); a None argument is not subscriptable, a
\* missing key is a KeyError
OcioConfigRenderer_from_dict(as_dict) ==
    IF as_dict = None THEN Raise("TypeError")
    ELSE IF ~(OcioFields \subseteq DOMAIN as_dict) THEN Raise("KeyError")
    ELSE Ok([name |-> as_dict["name"],
             filename |-> as_dict["filename"],
             description |-> as_dict["description"],
             config_path |-> PathOf(as_dict["config_path"]),
             srgb_lin |-> as_dict["srgb_lin"],
             display |-> as_dict["display"],
             view |-> as_dict["view"],
             look |-> as_dict["look"],
             src_colorspace |-> as_dict["src_colorspace"],
             source_url |-> as_dict["source_url"],
             references |-> as_dict["references"]])

(***************************************************************************)
(* json.dumps / json.loads.  The JSON text is modelled by its document:    *)
(* a str becomes a JSON string (the bare characters), None becomes null,   *)
(* a tuple or list becomes an array, and a Path is not serializable.       *)
(***************************************************************************)
JNull == [t |-> "null"]

JsonDumpsStr(value) ==
    IF value.t = "str" THEN Ok(value.s) ELSE Raise("TypeError")

JsonLoadsStr(chars) == StrV(chars)

\* json.dumps of the mapping of a renderer (or of None)
JsonDumpsRenderer(as_dict) ==
    IF as_dict = None THEN Ok(JNull)
    ELSE IF JsonDumpsStr(as_dict["config_path"]).exc # NoExc
    THEN Raise("TypeError")
    ELSE Ok([f \in DOMAIN as_dict |->
                IF f = "config_path" THEN JsonDumpsStr(as_dict[f]).ret
                ELSE as_dict[f]])

\* json.loads of the document of a renderer (or of null)
JsonLoadsRenderer(doc) ==
    IF doc = JNull THEN None
    ELSE [f \in DOMAIN doc |->
            IF f = "config_path" THEN JsonLoadsStr(doc[f]) ELSE doc[f]]

\* OcioConfigRenderer.to_json
OcioConfigRenderer_to_json(self) ==
    JsonDumpsRenderer(OcioConfigRenderer_to_dict(self))

\* OcioConfigRenderer.from_json
OcioConfigRenderer_from_json(json_str) ==
    OcioConfigRenderer_from_dict(JsonLoadsRenderer(json_str))

(***************************************************************************)
(* comparison.py : the generator classes and their registry                *)
(***************************************************************************)
GENERATORS == <<"GeneratorExposureBands", "GeneratorFull", "GeneratorCombined">>

\* the ClassVar shortname of a generator class
shortname(cls) ==
    CASE cls = "GeneratorExposureBands" -> "exposures"
      [] cls = "GeneratorFull" -> "full"
      [] cls = "GeneratorCombined" -> "__combined__"

\* the dataclass fields of a generator class (ClassVars are not fields)
GeneratorFields(cls) ==
    CASE cls = "GeneratorExposureBands" -> {"band_offset"}
      [] cls = "GeneratorFull" -> {"max_height"}
      [] cls = "GeneratorCombined" -> {}

\* the fields that have a default value, with that value
GeneratorDefaults(cls) ==
    CASE cls = "GeneratorExposureBands" -> [band_offset |-> 0]
      [] cls = "GeneratorFull" -> <<>>
      [] cls = "GeneratorCombined" -> <<>>

\* {gen.shortname: gen for gen in GENERATORS}: a later entry replaces an
\* earlier one of the same shortname
GENERATORS_BY_SHORTNAME ==
    [s \in {shortname(GENERATORS[i]) : i \in DOMAIN GENERATORS} |->
        LET last == CHOOSE i \in DOMAIN GENERATORS :
                        /\ shortname(GENERATORS[i]) = s
                        /\ \A j \in DOMAIN GENERATORS :
                               shortname(GENERATORS[j]) = s => j <= i
        IN GENERATORS[last]]

\* BaseGenerator.to_dict: dataclasses.asdict(self)
BaseGenerator_to_dict(self) ==
    [f \in GeneratorFields(self.cls) |-> self.params[f]]

\* variant of BaseGenerator.from_dict that builds cls() and drops the
\* serialized parameters
BaseGenerator_from_dict_defaults(cls, as_dict) ==
    IF ~(GeneratorFields(cls) \subseteq DOMAIN GeneratorDefaults(cls))
    THEN Raise("TypeError")
    ELSE Ok([cls |-> cls,
             params |-> [f \in GeneratorFields(cls) |->
                            GeneratorDefaults(cls)[f]]])

\* BaseGenerator.from_dict: cls(**as_dict)
BaseGenerator_from_dict(cls, as_dict) ==
    IF ~(DOMAIN as_dict \subseteq GeneratorFields(cls)) THEN Raise("TypeError")
    ELSE IF ~(GeneratorFields(cls) \subseteq
                (DOMAIN as_dict \cup DOMAIN GeneratorDefaults(cls)))
    THEN Raise("TypeError")
    ELSE Ok([cls |-> cls,
             params |-> [f \in GeneratorFields(cls) |->
                            IF f \in DOMAIN as_dict THEN as_dict[f]
                            ELSE GeneratorDefaults(cls)[f]]])

(***************************************************************************)
(* comparison.py : ComparisonRender                                        *)
(***************************************************************************)
\* ComparisonRender.to_dict; self.renderer.to_dict() on None has no such
\* attribute
ComparisonRender_to_dict(self) ==
    IF self.renderer = None THEN Raise("AttributeError")
    ELSE Ok([dst_path |-> PathStr(self.dst_path),
             src_paths |-> MapSeq(PathStr, self.src_paths),
             renderer |-> OcioConfigRenderer_to_dict(self.renderer),
             generator |-> <<shortname(self.generator.cls),
                             BaseGenerator_to_dict(self.generator)>>])

\* variant of ComparisonRender.from_dict that looks the shortname up with
\* a default class instead of indexing the registry
ComparisonRender_from_dict_fallback(as_dict) ==
    LET cls == IF as_dict["generator"][1] \in DOMAIN GENERATORS_BY_SHORTNAME
               THEN GENERATORS_BY_SHORTNAME[as_dict["generator"][1]]
               ELSE "GeneratorCombined"
        generator == BaseGenerator_from_dict(cls, <<>>)
        renderer == OcioConfigRenderer_from_dict(as_dict["renderer"])
    IN IF generator.exc # NoExc THEN Raise(generator.exc)
       ELSE IF renderer.exc # NoExc THEN Raise(renderer.exc)
       ELSE Ok([generator |-> generator.ret,
                renderer |-> renderer.ret,
                src_paths |-> MapSeq(PathOf, as_dict["src_paths"]),
                dst_path |-> PathOf(as_dict["dst_path"])])

\* ComparisonRender.from_dict
ComparisonRender_from_dict(as_dict) ==
    IF as_dict["generator"][1] \notin DOMAIN GENERATORS_BY_SHORTNAME
    THEN Raise("KeyError")
    ELSE LET generator ==
                 BaseGenerator_from_dict(
                     GENERATORS_BY_SHORTNAME[as_dict["generator"][1]],
                     as_dict["generator"][2])
             renderer == OcioConfigRenderer_from_dict(as_dict["renderer"])
         IN IF generator.exc # NoExc THEN Raise(generator.exc)
            ELSE IF renderer.exc # NoExc THEN Raise(renderer.exc)
            ELSE Ok([generator |-> generator.ret,
                     renderer |-> renderer.ret,
                     src_paths |-> MapSeq(PathOf, as_dict["src_paths"]),
                     dst_path |-> PathOf(as_dict["dst_path"])])

(***************************************************************************)
(* comparison.py : ComparisonSession                                       *)
(***************************************************************************)
RECURSIVE MapSeqExc(_, _)
\* [Op(x) for x in seq] where Op may raise: the first exception ends the
\* comprehension and no list is produced
MapSeqExc(Op(_), seq) ==
    IF seq = <<>> THEN Ok(<<>>)
    ELSE LET first == Op(Head(seq))
         IN IF first.exc # NoExc THEN Raise(first.exc)
            ELSE LET rest == MapSeqExc(Op, Tail(seq))
                 IN IF rest.exc # NoExc THEN Raise(rest.exc)
                    ELSE Ok(<<first.ret>> \o rest.ret)

\* lxmpicturelab.asset.ImageAsset(json_path)
ImageAsset(json_path) == [json_path |-> json_path]

RECURSIVE Reversed(_)
Reversed(seq) ==
    IF seq = <<>> THEN <<>> ELSE Append(Reversed(Tail(seq)), Head(seq))

\* variant of ComparisonSession.to_dict that walks the renders backwards
ComparisonSession_to_dict_reversed(self) ==
    LET rendered == MapSeqExc(ComparisonRender_to_dict, Reversed(self.renders))
    IN IF rendered.exc # NoExc THEN Raise(rendered.exc)
       ELSE Ok([asset |-> PathStr(self.asset.json_path),
                renders |-> rendered.ret])

\* ComparisonSession.to_dict
ComparisonSession_to_dict(self) ==
    LET rendered == MapSeqExc(ComparisonRender_to_dict, self.renders)
    IN IF rendered.exc # NoExc THEN Raise(rendered.exc)
       ELSE Ok([asset |-> PathStr(self.asset.json_path),
                renders |-> rendered.ret])

\* ComparisonSession.from_dict
ComparisonSession_from_dict(as_dict) ==
    LET loaded == MapSeqExc(ComparisonRender_from_dict, as_dict["renders"])
    IN IF loaded.exc # NoExc THEN Raise(loaded.exc)
       ELSE Ok([asset |-> ImageAsset(PathOf(as_dict["asset"])),
                renders |-> loaded.ret])

\* json.dumps of the mapping of one render
JsonDumpsRender(as_dict) ==
    LET dst == JsonDumpsStr(as_dict["dst_path"])
        srcs == MapSeqExc(JsonDumpsStr, as_dict["src_paths"])
        renderer == JsonDumpsRenderer(as_dict["renderer"])
    IN IF dst.exc # NoExc \/ srcs.exc # NoExc \/ renderer.exc # NoExc
       THEN Raise("TypeError")
       ELSE Ok([dst_path |-> dst.ret,
                src_paths |-> srcs.ret,
                renderer |-> renderer.ret,
                generator |-> as_dict["generator"]])

\* json.loads of the document of one render
JsonLoadsRender(doc) ==
    [dst_path |-> JsonLoadsStr(doc["dst_path"]),
     src_paths |-> MapSeq(JsonLoadsStr, doc["src_paths"]),
     renderer |-> JsonLoadsRenderer(doc["renderer"]),
     generator |-> doc["generator"]]

\* json.dumps of the mapping of a session
JsonDumpsSession(as_dict) ==
    LET asset_str == JsonDumpsStr(as_dict["asset"])
        rs == MapSeqExc(JsonDumpsRender, as_dict["renders"])
    IN IF asset_str.exc # NoExc \/ rs.exc # NoExc THEN Raise("TypeError")
       ELSE Ok([asset |-> asset_str.ret, renders |-> rs.ret])

\* json.loads of the document of a session
JsonLoadsSession(doc) ==
    [asset |-> JsonLoadsStr(doc["asset"]),
     renders |-> MapSeq(JsonLoadsRender, doc["renders"])]

\* ComparisonSession.to_json
ComparisonSession_to_json(self) ==
    LET asdict == ComparisonSession_to_dict(self)
    IN IF asdict.exc # NoExc THEN Raise(asdict.exc)
       ELSE JsonDumpsSession(asdict.ret)

\* ComparisonSession.from_json
ComparisonSession_from_json(json_str) ==
    ComparisonSession_from_dict(JsonLoadsSession(json_str))

(***************************************************************************)
(* The objects the calls are made with.                                    *)
(***************************************************************************)
PathSrcA == PathV(TRUE, <<<<"a">>, <<"b">>>>)

PathSrcB == PathV(FALSE, <<<<"a", "b">>>>)

PathDst == PathV(FALSE, <<<<"b">>, <<"a">>>>)

PathAsset == PathV(TRUE, <<<<"a">>>>)

PathConfigs == {PathV(TRUE, <<<<"c">>, <<"o">>>>), PathV(FALSE, <<<<"o">>>>)}

\* OcioConfigRenderer instances
Renderers ==
    {[name |-> n[1], filename |-> n[2], description |-> "d",
      config_path |-> c, srgb_lin |-> "Linear Rec.709", display |-> "sRGB",
      view |-> "v", look |-> l, src_colorspace |-> cs,
      source_url |-> "url", references |-> refs] :
        n \in {<<"AgX", "AgX">>, <<"Native (no image formation)", "native">>},
        c \in PathConfigs,
        l \in {"", "punchy"},
        cs \in {ACES20651_COLORSPACE, "sRGB"},
        refs \in {<<>>, <<"ref2", "ref1">>}}

RendererAgX ==
    [name |-> "AgX", filename |-> "AgX", description |-> "d",
     config_path |-> PathV(TRUE, <<<<"c">>, <<"o">>>>),
     srgb_lin |-> "Linear Rec.709", display |-> "sRGB", view |-> "v",
     look |-> "punchy", src_colorspace |-> ACES20651_COLORSPACE,
     source_url |-> "url", references |-> <<"ref2", "ref1">>]

RendererNative ==
    [name |-> "Native (no image formation)", filename |-> "native",
     description |-> "d", config_path |-> PathV(FALSE, <<<<"o">>>>),
     srgb_lin |-> "Linear Rec.709", display |-> "sRGB", view |-> "v",
     look |-> "", src_colorspace |-> ACES20651_COLORSPACE,
     source_url |-> "url", references |-> <<>>]

\* generator instances: GeneratorExposureBands(), GeneratorExposureBands(0.45),
\* GeneratorFull(864), GeneratorCombined()
GeneratorInstances ==
    {[cls |-> "GeneratorExposureBands", params |-> [band_offset |-> 0]],
     [cls |-> "GeneratorExposureBands", params |-> [band_offset |-> 45]],
     [cls |-> "GeneratorFull", params |-> [max_height |-> 864]],
     [cls |-> "GeneratorCombined", params |-> <<>>]}

\* ComparisonRender instances; only a render of the combined generator is
\* built without a renderer
Renders ==
    LET render(g, r) ==
            [generator |-> g, renderer |-> r,
             src_paths |-> IF g.cls = "GeneratorCombined"
                           THEN <<PathSrcB, PathSrcA>> ELSE <<PathSrcA>>,
             dst_path |-> PathDst]
    IN {render(g, r) : g \in GeneratorInstances,
                       r \in {RendererAgX, RendererNative}}
       \cup {render(g, None) :
                g \in {x \in GeneratorInstances : x.cls = "GeneratorCombined"}}

\* shortnames a manifest may carry that no generator has
UnknownShortnames == {"mosaic"}

NoCall == [op |-> "none", origin |-> None, arg |-> None, ret |-> None,
           exc |-> NoExc]

NoFrag == [op |-> "none", arg |-> None, ret |-> <<>>, exc |-> NoExc,
           bands |-> <<>>]

\* no directory exists
NoDisk == [path \in {} |-> {}]

\* no script has been started
NoProc ==
    [pc |-> "idle", runs |-> 0, caller |-> "none",
     argv |-> [identifier |-> "", target_dir |-> StrV(<<>>),
               force_overwrite |-> FALSE],
     cli |-> [identifier |-> "", target_dir |-> None,
              force_overwrite |-> FALSE],
     BuilderT |-> None,
     builder |-> None, log |-> <<>>, exit |-> -1, exc |-> NoExc,
     before |-> NoDisk, requested |-> <<>>, renderer_ids |-> <<>>,
     renderers |-> <<>>]

Called(op, origin, arg, result) ==
    [op |-> op, origin |-> origin, arg |-> arg, ret |-> result.ret,
     exc |-> result.exc]

session == [asset |-> asset, renders |-> renders]

(***************************************************************************)
(* The session: construction, add_render and the serialization calls.      *)
(***************************************************************************)
\* variant of ComparisonSession.add_render that inserts at the front
ComparisonSession_add_render_front(self, render) ==
    [self EXCEPT !.renders = <<render>> \o @]

\* ComparisonSession.add_render
ComparisonSession_add_render(self, render) ==
    [self EXCEPT !.renders = Append(@, render)]

\* the mappings ComparisonRender.from_dict is called with: the one to_dict
\* returned, or one read from a manifest that names an unknown generator or
\* has a null renderer
RenderDictInputs(as_dict) ==
    {as_dict}
    \cup {[as_dict EXCEPT !.generator = <<u, @[2]>>] : u \in UnknownShortnames}
    \cup {[as_dict EXCEPT !.renderer = None]}

\* the mappings ComparisonSession.from_dict is called with
SessionDictInputs(as_dict) ==
    {as_dict}
    \cup UNION {{[as_dict EXCEPT !.renders[i] = r] :
                    r \in RenderDictInputs(as_dict.renders[i])} :
                 i \in DOMAIN as_dict.renders}

\* the texts ComparisonSession.from_json is called with: the manifest
\* to_json wrote, or a manifest that names an unknown generator or has a
\* null renderer in one of its renders
ManifestInputs(text) ==
    {text}
    \cup {[text EXCEPT !.renders[i].generator = <<u, @[2]>>] :
            i \in DOMAIN text.renders, u \in UnknownShortnames}
    \cup {[text EXCEPT !.renders[i].renderer = JNull] :
            i \in DOMAIN text.renders}

Init ==
    /\ asset = ImageAsset(PathAsset)
    /\ renders = <<>>
    /\ manifest = None
    /\ descriptor = None
    /\ call = NoCall
    /\ frag = NoFrag
    /\ disk = NoDisk
    /\ proc = NoProc

add_render(render) ==
    /\ Len(renders) < MaxRenders
    /\ LET after == ComparisonSession_add_render(session, render)
       IN /\ asset' = after.asset
          /\ renders' = after.renders
    /\ call' = Called("ComparisonSession.add_render", session, render, Ok(None))
    /\ UNCHANGED <<manifest, descriptor, frag, disk, proc>>

RenderToDict(i) ==
    /\ call' = Called("ComparisonRender.to_dict", renders[i], None,
                      ComparisonRender_to_dict(renders[i]))
    /\ UNCHANGED <<asset, renders, manifest, descriptor, frag, disk, proc>>

RenderFromDict ==
    /\ call.op = "ComparisonRender.to_dict"
    /\ call.exc = NoExc
    /\ \E as_dict \in RenderDictInputs(call.ret) :
        call' = Called("ComparisonRender.from_dict", call.origin, as_dict,
                       ComparisonRender_from_dict(as_dict))
    /\ UNCHANGED <<asset, renders, manifest, descriptor, frag, disk, proc>>

SessionToDict ==
    /\ call' = Called("ComparisonSession.to_dict", session, None,
                      ComparisonSession_to_dict(session))
    /\ UNCHANGED <<asset, renders, manifest, descriptor, frag, disk, proc>>

SessionFromDict ==
    /\ call.op = "ComparisonSession.to_dict"
    /\ call.exc = NoExc
    /\ \E as_dict \in SessionDictInputs(call.ret) :
        call' = Called("ComparisonSession.from_dict", call.origin, as_dict,
                       ComparisonSession_from_dict(as_dict))
    /\ UNCHANGED <<asset, renders, manifest, descriptor, frag, disk, proc>>

SessionToJson ==
    LET result == ComparisonSession_to_json(session)
    IN /\ call' = Called("ComparisonSession.to_json", session, None, result)
       /\ manifest' = IF result.exc = NoExc
                      THEN [text |-> result.ret, session |-> session]
                      ELSE manifest
       /\ UNCHANGED <<asset, renders, descriptor, frag, disk, proc>>

SessionFromJson ==
    /\ manifest # None
    /\ \E json_str \in ManifestInputs(manifest.text) :
        call' = Called("ComparisonSession.from_json", manifest.session,
                       json_str, ComparisonSession_from_json(json_str))
    /\ UNCHANGED <<asset, renders, manifest, descriptor, frag, disk, proc>>

Next ==
    \/ \E render \in Renders : add_render(render)
    \/ \E i \in DOMAIN renders : RenderToDict(i)
    \/ RenderFromDict
    \/ SessionToDict
    \/ SessionFromDict
    \/ SessionToJson
    \/ SessionFromJson

Spec == Init /\ [][Next]_vars

(***************************************************************************)
(* Properties of the session model.                                        *)
(***************************************************************************)
RegisteredShortnames == {shortname(GENERATORS[i]) : i \in DOMAIN GENERATORS}

\* the observable fields of two renders agree
SameRender(a, b) ==
    /\ a.dst_path = b.dst_path
    /\ a.src_paths = b.src_paths
    /\ a.renderer.filename = b.renderer.filename
    /\ a.generator.cls = b.generator.cls
    /\ a.generator.params = b.generator.params

\* C1: for a render r with a non-null renderer and a generator of any
\* registered variant, to_dict succeeds and from_dict(r.to_dict()) has equal
\* dst_path, equal src_paths in order, equal renderer.filename, the generator
\* class registered under the serialized shortname and equal parameters.
C1_RenderRoundTrip ==
    /\ (call.op = "ComparisonRender.to_dict" /\ call.origin.renderer # None)
        => call.exc = NoExc
    /\ (/\ call.op = "ComparisonRender.from_dict"
        /\ call.arg = ComparisonRender_to_dict(call.origin).ret)
        => /\ call.exc = NoExc
           /\ SameRender(call.ret, call.origin)
           /\ call.ret.generator.cls
                = GENERATORS_BY_SHORTNAME[call.arg["generator"][1]]

C1_Witness ==
    /\ call.op = "ComparisonRender.from_dict"
    /\ call.arg = ComparisonRender_to_dict(call.origin).ret
    /\ call.exc = NoExc
    /\ call.origin.generator.cls = "GeneratorExposureBands"
    /\ call.ret.generator.params["band_offset"] = 45
    /\ call.ret.renderer.filename = "native"

\* C2: for a render whose renderer is null, to_dict succeeds and emits
\* "renderer": null, and from_dict of a mapping with a null renderer yields a
\* render whose renderer is null and whose other fields are those of the
\* mapping.
C2_NullRendererRoundTrip ==
    /\ (call.op = "ComparisonRender.to_dict" /\ call.origin.renderer = None)
        => /\ call.exc = NoExc
           /\ call.ret["renderer"] = None
    /\ (/\ call.op = "ComparisonRender.from_dict"
        /\ call.arg["renderer"] = None
        /\ call.arg["generator"][1] \in RegisteredShortnames)
        => /\ call.exc = NoExc
           /\ call.ret.renderer = None
           /\ call.ret.dst_path = call.origin.dst_path
           /\ call.ret.src_paths = call.origin.src_paths

\* C3: add_render appends its argument at the end of session.renders and
\* leaves the earlier renders and the asset as they were; no other call
\* changes the renders or the asset.
C3_AppendOnly ==
    [][/\ asset' = asset
       /\ \/ /\ call'.op = "ComparisonSession.add_render"
             /\ renders' = Append(renders, call'.arg)
          \/ /\ call'.op # "ComparisonSession.add_render"
             /\ renders' = renders]_vars

C3_Witness ==
    /\ call.op = "ComparisonSession.add_render"
    /\ Len(renders) = 2
    /\ renders[1] # renders[2]
    /\ renders[2] = call.arg

\* C4: for a session whose renders all have a renderer, to_json succeeds and
\* from_json(s.to_json()) has as many renders as s, pairwise equal in order;
\* to_json and to_dict leave s.renders as they were.
C4_SessionRoundTrip ==
    /\ [](/\ (/\ call.op = "ComparisonSession.to_json"
              /\ \A i \in DOMAIN call.origin.renders :
                    call.origin.renders[i].renderer # None)
              => call.exc = NoExc
          /\ (/\ call.op = "ComparisonSession.from_json"
              /\ call.arg = ComparisonSession_to_json(call.origin).ret)
              => /\ call.exc = NoExc
                 /\ Len(call.ret.renders) = Len(call.origin.renders)
                 /\ \A i \in DOMAIN call.origin.renders :
                        SameRender(call.ret.renders[i], call.origin.renders[i]))
    /\ [][call'.op \in {"ComparisonSession.to_json", "ComparisonSession.to_dict"}
            => renders' = renders]_vars

C4_Witness ==
    /\ call.op = "ComparisonSession.from_json"
    /\ call.arg = ComparisonSession_to_json(call.origin).ret
    /\ call.exc = NoExc
    /\ Len(call.ret.renders) = 2
    /\ call.ret.renders[1] # call.ret.renders[2]

\* C5: ComparisonSession.to_dict returns a mapping with exactly the keys
\* asset and renders; renders has one entry per render in session order, each
\* with exactly the keys dst_path (a string), src_paths (the strings of the
\* source paths in order), renderer (the descriptor's field mapping, or null)
\* and generator (the shortname followed by the parameter mapping).
C5_ToDictShape ==
    call.op = "ComparisonSession.to_dict"
    => /\ call.exc = NoExc
       /\ DOMAIN call.ret = {"asset", "renders"}
       /\ Len(call.ret["renders"]) = Len(call.origin.renders)
       /\ \A i \in DOMAIN call.origin.renders :
            LET entry == call.ret["renders"][i]
                render == call.origin.renders[i]
            IN /\ DOMAIN entry = {"dst_path", "src_paths", "renderer", "generator"}
               /\ entry["dst_path"] = PathStr(render.dst_path)
               /\ Len(entry["src_paths"]) = Len(render.src_paths)
               /\ \A k \in DOMAIN render.src_paths :
                    entry["src_paths"][k] = PathStr(render.src_paths[k])
               /\ entry["renderer"] =
                    IF render.renderer = None THEN None
                    ELSE OcioConfigRenderer_to_dict(render.renderer)
               /\ entry["generator"] = <<shortname(render.generator.cls),
                                         render.generator.params>>

\* C6: from_dict of a render mapping whose generator shortname is not
\* registered raises KeyError, and from_dict / from_json of a session
\* manifest holding such a render at any position raises and returns no
\* session.
C6_UnknownShortname ==
    /\ (/\ call.op = "ComparisonRender.from_dict"
        /\ call.arg["generator"][1] \notin RegisteredShortnames)
        => call.exc = "KeyError" /\ call.ret = None
    /\ (/\ call.op \in {"ComparisonSession.from_dict", "ComparisonSession.from_json"}
        /\ \E i \in DOMAIN call.arg["renders"] :
                call.arg["renders"][i]["generator"][1] \notin RegisteredShortnames)
        => call.exc # NoExc /\ call.ret = None

C6_Witness ==
    /\ call.op = "ComparisonSession.from_json"
    /\ Len(call.arg["renders"]) = 2
    /\ call.arg["renders"][1]["generator"][1] \in RegisteredShortnames
    /\ call.arg["renders"][2]["generator"][1] \notin RegisteredShortnames
    /\ call.exc = "KeyError"

(***************************************************************************)
(* The renderer descriptor: serialization calls on one OcioConfigRenderer. *)
(***************************************************************************)
InitRenderer ==
    /\ asset = ImageAsset(PathAsset)
    /\ renders = <<>>
    /\ manifest = None
    /\ descriptor \in Renderers
    /\ call = NoCall
    /\ frag = NoFrag
    /\ disk = NoDisk
    /\ proc = NoProc

OcioToDict ==
    /\ call' = Called("OcioConfigRenderer.to_dict", descriptor, None,
                      Ok(OcioConfigRenderer_to_dict(descriptor)))
    /\ descriptor' = OcioConfigRenderer_after_to_dict(descriptor)
    /\ UNCHANGED <<asset, renders, manifest, frag, disk, proc>>

OcioFromDict ==
    /\ call.op = "OcioConfigRenderer.to_dict"
    /\ call' = Called("OcioConfigRenderer.from_dict", call.origin, call.ret,
                      OcioConfigRenderer_from_dict(call.ret))
    /\ UNCHANGED <<asset, renders, manifest, descriptor, frag, disk, proc>>

OcioToJson ==
    /\ call' = Called("OcioConfigRenderer.to_json", descriptor, None,
                      OcioConfigRenderer_to_json(descriptor))
    /\ descriptor' = OcioConfigRenderer_after_to_dict(descriptor)
    /\ UNCHANGED <<asset, renders, manifest, frag, disk, proc>>

OcioFromJson ==
    /\ call.op = "OcioConfigRenderer.to_json"
    /\ call.exc = NoExc
    /\ call' = Called("OcioConfigRenderer.from_json", call.origin, call.ret,
                      OcioConfigRenderer_from_json(call.ret))
    /\ UNCHANGED <<asset, renders, manifest, descriptor, frag, disk, proc>>

NextRenderer ==
    \/ OcioToDict
    \/ OcioFromDict
    \/ OcioToJson
    \/ OcioFromJson

SpecRenderer == InitRenderer /\ [][NextRenderer]_vars

\* C7: for every OcioConfigRenderer d, from_dict(d.to_dict()) equals d on
\* every field, so does from_json(d.to_json()), and to_dict leaves d as it
\* was.
C7_RendererRoundTrip ==
    /\ [](/\ call.op = "OcioConfigRenderer.to_json" => call.exc = NoExc
          /\ call.op \in {"OcioConfigRenderer.from_dict",
                          "OcioConfigRenderer.from_json"}
              => /\ call.exc = NoExc
                 /\ DOMAIN call.ret = OcioFields
                 /\ \A f \in OcioFields : call.ret[f] = call.origin[f])
    /\ [][call'.op \in {"OcioConfigRenderer.to_dict", "OcioConfigRenderer.to_json"}
            => descriptor' = descriptor]_vars

C7_Witness ==
    /\ call.op = "OcioConfigRenderer.from_json"
    /\ call.exc = NoExc
    /\ call.origin = descriptor
    /\ call.ret.references = <<"ref2", "ref1">>
    /\ call.ret.config_path = PathV(TRUE, <<<<"c">>, <<"o">>>>)
    /\ call.ret.look = "punchy"
    /\ call.ret.src_colorspace # ACES20651_COLORSPACE

(***************************************************************************)
(* oiiotoolio.py : command fragments.  A command is a sequence of tokens,  *)
(* each token a string.                                                    *)
(***************************************************************************)
RECURSIVE Text(_)
\* the characters of a text as one token
Text(chars) ==
    IF chars = <<>> THEN "" ELSE Head(chars) \o Text(Tail(chars))

\* str(path) as a command token
PathToken(path) == Text(PathStr(path).s)

\* a function that builds a command raised: no tokens are returned
Fail(name) == [exc |-> name, ret |-> <<>>]

\* a list argument, as opposed to None
ListV(items) == [t |-> "list", items |-> items]

\* str(OIIOTOOL)
OIIOTOOL == "oiiotool"

\* math.ceil(a / b) for b > 0
CeilDiv(a, b) == -((-a) \div b)

RECURSIVE Range(_, _, _)
\* list(range(start, stop, step)) for step > 0
Range(start, stop, step) ==
    IF start >= stop THEN <<>>
    ELSE <<start>> \o Range(start + step, stop, step)

RECURSIVE Pow2(_)
Pow2(k) == IF k = 0 THEN 1 ELSE 2 * Pow2(k - 1)

\* two digits
Digits2(n) == IF n < 10 THEN "0" \o ToString(n) ELSE ToString(n)

\* f"{1 / fraction:.2f}" for a fraction given in hundredths: the quotient
\* 100 / fraction rounded half-to-even to the nearest hundredth
InverseFormat2f(fraction) ==
    LET q == 10000 \div fraction
        r == 10000 % fraction
        hundredths == IF 2 * r > fraction THEN q + 1
                      ELSE IF 2 * r = fraction THEN q + (q % 2)
                      ELSE q
    IN ToString(hundredths \div 100) \o "." \o Digits2(hundredths % 100)

\* str(round(2**band_exposure, 2)): an int for a non-negative exponent;
\* for a negative one the float rounded half-to-even to two decimals and
\* printed in its shortest form
MulcFactor(band_exposure) ==
    IF band_exposure >= 0 THEN ToString(Pow2(band_exposure))
    ELSE LET den == Pow2(-band_exposure)
             q == 100 \div den
             r == 100 % den
             hundredths == IF 2 * r > den THEN q + 1
                           ELSE IF 2 * r = den THEN q + (q % 2)
                           ELSE q
         IN IF hundredths % 10 = 0
            THEN "0." \o ToString(hundredths \div 10)
            ELSE "0." \o Digits2(hundredths)

\* f"{band_exposure:+}"
SignedLabel(band_exposure) ==
    IF band_exposure >= 0 THEN "+" \o ToString(band_exposure)
    ELSE ToString(band_exposure)

\* variant of the tokens of one band that writes the label before the
\* extra arguments
BandTokens_labelfirst(src_path, band_exposure, band_width, band_x_offset, extra) ==
    <<"-i", PathToken(src_path),
      "--cut",
      "{TOP.width//" \o InverseFormat2f(band_width) \o "}x{TOP.height}+{TOP.width//"
         \o InverseFormat2f(band_x_offset) \o "}+0",
      "--mulc", MulcFactor(band_exposure)>>
    \o <<"--text:x={TOP.width/2}:y={TOP.height-25}:shadow=4:size=44:color=1,1,1,1",
         SignedLabel(band_exposure)>>
    \o extra

\* the tokens of one band (the body of the loop)
BandTokens(src_path, band_exposure, band_width, band_x_offset, extra) ==
    <<"-i", PathToken(src_path),
      "--cut",
      "{TOP.width//" \o InverseFormat2f(band_width) \o "}x{TOP.height}+{TOP.width//"
         \o InverseFormat2f(band_x_offset) \o "}+0",
      "--mulc", MulcFactor(band_exposure)>>
    \o extra
    \o <<"--text:x={TOP.width/2}:y={TOP.height-25}:shadow=4:size=44:color=1,1,1,1",
         SignedLabel(band_exposure)>>

RECURSIVE AllBandTokens(_, _, _, _, _)
AllBandTokens(src_path, bands, band_width, band_x_offset, extra) ==
    IF bands = <<>> THEN <<>>
    ELSE BandTokens(src_path, Head(bands), band_width, band_x_offset, extra)
         \o AllBandTokens(src_path, Tail(bands), band_width, band_x_offset, extra)

\* variant of oiiotool_generate_expo_bands whose middle index is
\* band_number // 2
oiiotool_generate_expo_bands_floor(src_path, band_number, band_exposure_offset, band_width, band_x_offset, band_extra_args) ==
    LET extra == IF band_extra_args = None THEN <<>> ELSE band_extra_args.items
    IN IF band_number % 2 = 0
       THEN [exc |-> "ValueError", ret |-> <<>>, bands |-> <<>>]
       ELSE LET middle_index == band_number \div 2
                limits == band_exposure_offset * (middle_index - 1)
                bands == Range(limits * (-1), limits + 1, band_exposure_offset)
            IN IF bands # <<>> /\ (band_width = 0 \/ band_x_offset = 0)
               THEN [exc |-> "ZeroDivisionError", ret |-> <<>>, bands |-> bands]
               ELSE [exc |-> NoExc,
                     ret |-> AllBandTokens(src_path, bands, band_width,
                                           band_x_offset, extra)
                             \o <<"--mosaic", ToString(Len(bands)) \o "x1">>,
                     bands |-> bands]

\* oiiotool_generate_expo_bands; band_width and band_x_offset are given in
\* hundredths.  The result carries the local list bands next to the
\* returned command or the raised exception.
oiiotool_generate_expo_bands(src_path, band_number, band_exposure_offset, band_width, band_x_offset, band_extra_args) ==
    LET extra == IF band_extra_args = None THEN <<>> ELSE band_extra_args.items
    IN IF band_number % 2 = 0
       THEN [exc |-> "ValueError", ret |-> <<>>, bands |-> <<>>]
       ELSE LET middle_index == CeilDiv(band_number, 2)
                limits == band_exposure_offset * (middle_index - 1)
                bands == Range(limits * (-1), limits + 1, band_exposure_offset)
            IN IF bands # <<>> /\ (band_width = 0 \/ band_x_offset = 0)
               THEN [exc |-> "ZeroDivisionError", ret |-> <<>>, bands |-> bands]
               ELSE [exc |-> NoExc,
                     ret |-> AllBandTokens(src_path, bands, band_width,
                                           band_x_offset, extra)
                             \o <<"--mosaic", ToString(Len(bands)) \o "x1">>,
                     bands |-> bands]

\* math.ceil(math.sqrt(n)) for n >= 0
CeilSqrt(n) == CHOOSE c \in 0..n : c * c >= n /\ \A d \in 0..(c - 1) : d * d < n

\* variant of oiiotool_auto_mosaic whose rows are image_number // columns
oiiotool_auto_mosaic_floor(image_number) ==
    LET columns == CeilSqrt(image_number)
    IN IF columns = 0 THEN Fail("ZeroDivisionError")
       ELSE LET rows == image_number \div columns
            IN Ok(<<"--mosaic", ToString(columns) \o "x" \o ToString(rows)>>)

\* variant of oiiotool_auto_mosaic whose grid is always square
oiiotool_auto_mosaic_square(image_number) ==
    LET columns == CeilSqrt(image_number)
    IN IF columns = 0 THEN Fail("ZeroDivisionError")
       ELSE Ok(<<"--mosaic", ToString(columns) \o "x" \o ToString(columns)>>)

\* oiiotool_auto_mosaic
oiiotool_auto_mosaic(image_number) ==
    LET columns == CeilSqrt(image_number)
    IN IF columns = 0 THEN Fail("ZeroDivisionError")
       ELSE LET rows == CeilDiv(image_number, columns)
            IN Ok(<<"--mosaic", ToString(columns) \o "x" \o ToString(rows)>>)

\* variant of oiiotool_export that names the target before the compression
oiiotool_export_ofirst(target_path, bitdepth, compression, srgb_encoded) ==
    <<"-d", bitdepth>>
    \o (IF srgb_encoded THEN <<"--colorconvert", "linear", "sRGB">> ELSE <<>>)
    \o <<"-o", PathToken(target_path)>>
    \o (IF compression # "" THEN <<"--compression", compression>> ELSE <<>>)

\* oiiotool_export; compression is "" when not given
oiiotool_export(target_path, bitdepth, compression, srgb_encoded) ==
    <<"-d", bitdepth>>
    \o (IF srgb_encoded THEN <<"--colorconvert", "linear", "sRGB">> ELSE <<>>)
    \o (IF compression # "" THEN <<"--compression", compression>> ELSE <<>>)
    \o <<"-o", PathToken(target_path)>>

RECURSIVE InputTokens(_)
\* [arg for args in [("-i", str(path)) for path in image_paths] for arg in args]
InputTokens(image_paths) ==
    IF image_paths = <<>> THEN <<>>
    ELSE <<"-i", PathToken(Head(image_paths))>> \o InputTokens(Tail(image_paths))

\* scripts/comparisons-generate.py : generate_combine; the returned value is
\* the command given to subprocess.run
generate_combine(image_paths, dst_path) ==
    LET mosaic == oiiotool_auto_mosaic(Len(image_paths))
    IN IF mosaic.exc # NoExc THEN Fail(mosaic.exc)
       ELSE Ok(<<OIIOTOOL>>
               \o InputTokens(image_paths)
               \o mosaic.ret
               \o oiiotool_export(dst_path, "uint8", "jpeg:98", FALSE))

(***************************************************************************)
(* The command fragments: calls of the fragment builders.  The builders    *)
(* are pure functions, so a behaviour makes one call, on inputs drawn from *)
(* the sets below.                                                         *)
(***************************************************************************)
\* band counts start below zero: Python accepts any int
MinBands == -3

\* band_width and band_x_offset in hundredths; 0 is the default of
\* band_x_offset and of GeneratorExposureBands.band_offset
BandWidths == {20, 30}

BandOffsets == {0, 30, 45}

\* band_extra_args: None (the default), or a list of tokens
ExtraArgs == {None, ListV(<<>>), ListV(<<"--colorconfig", "config.ocio">>)}

\* the paths of n rendered images, in order
ImagePaths(n) == [i \in 1..n |-> PathV(FALSE, <<<<"r" \o ToString(i)>>>>)]

InitFragments ==
    /\ asset = ImageAsset(PathAsset)
    /\ renders = <<>>
    /\ manifest = None
    /\ descriptor = None
    /\ call = NoCall
    /\ frag = NoFrag
    /\ disk = NoDisk
    /\ proc = NoProc

CallExpoBands ==
    /\ frag = NoFrag
    /\ \E band_number \in MinBands..MaxBands, band_exposure_offset \in 1..MaxStep,
          band_width \in BandWidths, band_x_offset \in BandOffsets,
          band_extra_args \in ExtraArgs :
        LET result == oiiotool_generate_expo_bands(
                          PathSrcA, band_number, band_exposure_offset,
                          band_width, band_x_offset, band_extra_args)
        IN frag' = [op |-> "oiiotool_generate_expo_bands",
                    arg |-> [src_path |-> PathSrcA,
                             band_number |-> band_number,
                             band_exposure_offset |-> band_exposure_offset,
                             band_width |-> band_width,
                             band_x_offset |-> band_x_offset,
                             band_extra_args |-> band_extra_args],
                    ret |-> result.ret, exc |-> result.exc,
                    bands |-> result.bands]
    /\ UNCHANGED <<asset, renders, manifest, descriptor, call, disk, proc>>

CallAutoMosaic ==
    /\ frag = NoFrag
    /\ \E image_number \in 0..MaxImages :
        LET result == oiiotool_auto_mosaic(image_number)
        IN frag' = [op |-> "oiiotool_auto_mosaic",
                    arg |-> [image_number |-> image_number],
                    ret |-> result.ret, exc |-> result.exc, bands |-> <<>>]
    /\ UNCHANGED <<asset, renders, manifest, descriptor, call, disk, proc>>

CallGenerateCombine ==
    /\ frag = NoFrag
    /\ \E n \in 0..MaxImages :
        LET result == generate_combine(ImagePaths(n), PathDst)
        IN frag' = [op |-> "generate_combine",
                    arg |-> [image_paths |-> ImagePaths(n), dst_path |-> PathDst],
                    ret |-> result.ret, exc |-> result.exc, bands |-> <<>>]
    /\ UNCHANGED <<asset, renders, manifest, descriptor, call, disk, proc>>

NextFragments ==
    \/ CallExpoBands
    \/ CallAutoMosaic
    \/ CallGenerateCombine

SpecFragments == InitFragments /\ [][NextFragments]_vars

(***************************************************************************)
(* Properties of the command fragments.                                    *)
(***************************************************************************)
RECURSIVE Count(_, _)
\* the number of occurrences of a token in a command
Count(command, token) ==
    IF command = <<>> THEN 0
    ELSE (IF Head(command) = token THEN 1 ELSE 0) + Count(Tail(command), token)

LastTwo(command) == SubSeq(command, Len(command) - 1, Len(command))

BandLabelOption ==
    "--text:x={TOP.width/2}:y={TOP.height-25}:shadow=4:size=44:color=1,1,1,1"

RECURSIVE LabelsOf(_)
\* the label tokens of the bands of a command, in order
LabelsOf(command) ==
    IF Len(command) < 2 THEN <<>>
    ELSE IF Head(command) = BandLabelOption
    THEN <<command[2]>> \o LabelsOf(Tail(Tail(command)))
    ELSE LabelsOf(Tail(command))

\* C8: oiiotool_generate_expo_bands raises ValueError and returns no tokens
\* for every even band_number; for every odd band_number N >= 1 it returns
\* exactly N band sub-commands followed by exactly one mosaic directive, the
\* two tokens "--mosaic" and "Nx1".
C8_OddBands ==
    frag.op = "oiiotool_generate_expo_bands"
    => /\ frag.arg.band_number % 2 = 0
            => frag.exc = "ValueError" /\ frag.ret = <<>>
       /\ (frag.arg.band_number % 2 = 1 /\ frag.arg.band_number >= 1)
            => /\ frag.exc = NoExc
               /\ Count(frag.ret, "-i") = frag.arg.band_number
               /\ Count(frag.ret, "--mulc") = frag.arg.band_number
               /\ Count(frag.ret, "--mosaic") = 1
               /\ LastTwo(frag.ret)
                    = <<"--mosaic", ToString(frag.arg.band_number) \o "x1">>

\* C9: for every odd band_number N >= 1 and every step >= 1 the exposure
\* offsets computed by oiiotool_generate_expo_bands are, in order,
\* step * (i - floor(N/2)) for i = 0..N-1, symmetric around 0 and strictly
\* increasing, and a returned command labels its bands with them; for N = 7
\* and step = 2 they are -6, -4, -2, 0, 2, 4, 6.
C9_Offsets ==
    (/\ frag.op = "oiiotool_generate_expo_bands"
     /\ frag.arg.band_number % 2 = 1
     /\ frag.arg.band_number >= 1)
    => LET N == frag.arg.band_number
           step == frag.arg.band_exposure_offset
       IN /\ frag.bands = [i \in 1..N |-> step * ((i - 1) - (N \div 2))]
          /\ \A i \in 1..N : frag.bands[i] = -frag.bands[N + 1 - i]
          /\ \A i \in 1..(N - 1) : frag.bands[i] < frag.bands[i + 1]
          /\ (N = 7 /\ step = 2) => frag.bands = <<-6, -4, -2, 0, 2, 4, 6>>
          /\ frag.exc = NoExc
                => LabelsOf(frag.ret)
                     = [i \in 1..N |-> SignedLabel(step * ((i - 1) - (N \div 2)))]

C9_Witness ==
    /\ frag.op = "oiiotool_generate_expo_bands"
    /\ frag.arg.band_number = 7
    /\ frag.arg.band_exposure_offset = 2
    /\ frag.exc = NoExc
    /\ LabelsOf(frag.ret) = <<"-6", "-4", "-2", "+0", "+2", "+4", "+6">>

\* the mosaic size token of n images: columns = ceil(sqrt(n)) and
\* rows = ceil(n / columns)
IsGrid(n, token) ==
    \E columns \in 1..n, rows \in 1..n :
        /\ (columns - 1) * (columns - 1) < n
        /\ n <= columns * columns
        /\ (rows - 1) * columns < n
        /\ n <= rows * columns
        /\ token = ToString(columns) \o "x" \o ToString(rows)

ExpectedGrids ==
    (1 :> "1x1") @@ (2 :> "2x1") @@ (3 :> "2x2") @@ (4 :> "2x2")
    @@ (5 :> "3x2") @@ (9 :> "3x3") @@ (10 :> "4x3")

\* C10: for every image count n >= 1 oiiotool_auto_mosaic returns the two
\* tokens "--mosaic" and "CxR" with C = ceil(sqrt(n)) and R = ceil(n / C);
\* for n in {1,2,3,4,5,9,10} the grids are 1x1, 2x1, 2x2, 2x2, 3x2, 3x3, 4x3;
\* generate_combine uses the grid of the number of its image paths.
C10_AutoMosaic ==
    /\ (frag.op = "oiiotool_auto_mosaic" /\ frag.arg.image_number >= 1)
        => /\ frag.exc = NoExc
           /\ Len(frag.ret) = 2
           /\ frag.ret[1] = "--mosaic"
           /\ IsGrid(frag.arg.image_number, frag.ret[2])
           /\ frag.arg.image_number \in DOMAIN ExpectedGrids
                => frag.ret[2] = ExpectedGrids[frag.arg.image_number]
    /\ (frag.op = "generate_combine" /\ Len(frag.arg.image_paths) >= 1)
        => LET n == Len(frag.arg.image_paths)
           IN /\ frag.exc = NoExc
              /\ Count(frag.ret, "-i") = n
              /\ Count(frag.ret, "--mosaic") = 1
              /\ frag.ret[2 * n + 2] = "--mosaic"
              /\ IsGrid(n, frag.ret[2 * n + 3])

C10_Witness ==
    /\ frag.op = "generate_combine"
    /\ Len(frag.arg.image_paths) = 10
    /\ frag.ret[22] = "--mosaic"
    /\ frag.ret[23] = "4x3"

(***************************************************************************)
(* renderer/_config.py and oiiotoolio.py : the display conversion of a     *)
(* renderer.                                                               *)
(***************************************************************************)
\* a str argument that may also be None
TokenV(s) == [t |-> "token", s |-> s]

\* bool(value) of an optional str: None and "" are false
Truthy(value) == value # None /\ value.s # ""

\* oiiotool_AP0_to_sRGB: the option and ",".join(map(str, AP0_TO_SRGB))
oiiotool_AP0_to_sRGB ==
    <<"--ccmatrix:transpose=1",
      "2.521649,-1.136889,-0.384918,-0.275214,1.369705,-0.094392,-0.015925,-0.147806,1.163806">>

\* variant of oiiotool_ocio_display_convert whose look step goes from the
\* source colorspace to the look name
oiiotool_ocio_display_convert_lookto(config, src_colorspace, display, view, look) ==
    <<"--colorconfig", PathToken(config)>>
    \o (IF Truthy(look)
        THEN <<"--ociolook:from=\"" \o src_colorspace \o "\":to=\""
                  \o look.s \o "\"",
               look.s>>
        ELSE <<>>)
    \o <<"--ociodisplay:from=\"" \o src_colorspace \o "\"", display, view>>

\* oiiotool_ocio_display_convert; look is None or a str
oiiotool_ocio_display_convert(config, src_colorspace, display, view, look) ==
    <<"--colorconfig", PathToken(config)>>
    \o (IF Truthy(look)
        THEN <<"--ociolook:from=\"" \o src_colorspace \o "\":to=\""
                  \o src_colorspace \o "\"",
               look.s>>
        ELSE <<>>)
    \o <<"--ociodisplay:from=\"" \o src_colorspace \o "\"", display, view>>

\* variant of OcioConfigRenderer.to_oiiotool_command that converts whatever
\* the source colorspace is
OcioConfigRenderer_to_oiiotool_command_any(self) ==
    Ok(oiiotool_AP0_to_sRGB
       \o oiiotool_ocio_display_convert(self.config_path, self.srgb_lin,
                                        self.display, self.view,
                                        TokenV(self.look)))

\* variant of OcioConfigRenderer.to_oiiotool_command that hands the source
\* colorspace of the renderer to the display conversion
OcioConfigRenderer_to_oiiotool_command_src(self) ==
    IF self.src_colorspace = ACES20651_COLORSPACE
    THEN Ok(oiiotool_AP0_to_sRGB
            \o oiiotool_ocio_display_convert(self.config_path,
                                             self.src_colorspace,
                                             self.display, self.view,
                                             TokenV(self.look)))
    ELSE Fail("NotImplementedError")

\* OcioConfigRenderer.to_oiiotool_command
OcioConfigRenderer_to_oiiotool_command(self) ==
    IF self.src_colorspace = ACES20651_COLORSPACE
    THEN Ok(oiiotool_AP0_to_sRGB
            \o oiiotool_ocio_display_convert(self.config_path, self.srgb_lin,
                                             self.display, self.view,
                                             TokenV(self.look)))
    ELSE Fail("NotImplementedError")

(***************************************************************************)
(* comparison.py : the run methods of the generators.  The outcome of a    *)
(* run is the exception it raised, the value it returned and the commands  *)
(* it gave to subprocess.run, in order.                                    *)
(***************************************************************************)
RunOk(value, command) == [exc |-> NoExc, ret |-> value, ran |-> <<command>>]

RunRaise(name) == [exc |-> name, ret |-> None, ran |-> <<>>]

RECURSIVE RFind(_, _)
\* chars.rfind(c) counted from 1; 0 when c is not in chars
RFind(chars, c) ==
    IF chars = <<>> THEN 0
    ELSE IF chars[Len(chars)] = c THEN Len(chars)
    ELSE RFind(SubSeq(chars, 1, Len(chars) - 1), c)

\* path.stem as a token: the final component without its last suffix
Stem(path) ==
    LET name == IF path.parts = <<>> THEN <<>>
                ELSE path.parts[Len(path.parts)]
        i == RFind(name, ".")
    IN IF 1 < i /\ i < Len(name) THEN Text(SubSeq(name, 1, i - 1))
       ELSE Text(name)

\* f", look='{renderer.look}'" if renderer.look else ""
look_str(renderer) ==
    IF renderer.look # "" THEN ", look='" \o renderer.look \o "'" ELSE ""

\* f"(display='{renderer.display}', view='{renderer.view}'{look_str})"
DisplayViewText(renderer) ==
    "(display='" \o renderer.display \o "', view='" \o renderer.view \o "'"
    \o look_str(renderer) \o ")"

\* GeneratorExposureBands._run
GeneratorExposureBands__run(self, src_path, dst_path, ocio_command, text_left, text_right) ==
    LET expo == oiiotool_generate_expo_bands(src_path, 7, 2, 20,
                                             self.params.band_offset,
                                             ListV(ocio_command))
    IN IF expo.exc # NoExc THEN RunRaise(expo.exc)
       ELSE RunOk(None,
                  <<OIIOTOOL>>
                  \o expo.ret
                  \o <<"--resize:filter=box", "0x864",
                       "--cut", "0,0,{TOP.width},{TOP.height+100}",
                       "--text:x=40:y={TOP.height-45}:shadow=0:size=34:color=1,1,1,1:yalign=center",
                       text_left,
                       "--text:x={TOP.width-40}:y={TOP.height-45}:shadow=0:size=24:color=1,1,1,1:yalign=center:xalign=right",
                       text_right>>
                  \o oiiotool_export(dst_path, "uint8", "jpeg:98", FALSE))

\* GeneratorExposureBands.run
GeneratorExposureBands_run(self, src_paths, dst_path, renderer) ==
    IF src_paths = <<>> THEN RunRaise("IndexError")
    ELSE IF renderer = None THEN RunRaise("AttributeError")
    ELSE LET src_path == src_paths[1]
             ocio_command == OcioConfigRenderer_to_oiiotool_command(renderer)
             text_left == Stem(src_path) \o " - " \o renderer.name
             text_right == DisplayViewText(renderer)
         IN IF ocio_command.exc # NoExc THEN RunRaise(ocio_command.exc)
            ELSE GeneratorExposureBands__run(self, src_path, dst_path,
                                             ocio_command.ret, text_left,
                                             text_right)

\* variant of GeneratorFull._run that resizes to the height of the exposure
\* bands
GeneratorFull__run_864(self, src_path, dst_path, ocio_command, text_left, text_right) ==
    <<OIIOTOOL, "-i", PathToken(src_path)>>
    \o ocio_command
    \o <<"--ch", "R,G,B">>
    \o <<"--resize:filter=box", "0x864",
         "--cut", "0,0,{TOP.width},{TOP.height+100}",
         "--text:x=40:y={TOP.height-47}:shadow=0:size=34:color=1,1,1,1:yalign=bottom",
         text_left[1],
         "--text:x=40:y={TOP.height-42}:shadow=0:size=24:color=1,1,1,1:yalign=top",
         text_left[2],
         "--text:x={TOP.width-40}:y={TOP.height-45}:shadow=0:size=34:color=1,1,1,1:yalign=center:xalign=right",
         text_right>>
    \o oiiotool_export(dst_path, "uint8", "jpeg:98", FALSE)

\* GeneratorFull._run: the command given to subprocess.run
GeneratorFull__run(self, src_path, dst_path, ocio_command, text_left, text_right) ==
    <<OIIOTOOL, "-i", PathToken(src_path)>>
    \o ocio_command
    \o <<"--ch", "R,G,B">>
    \o <<"--resize:filter=box", "0x" \o ToString(self.params.max_height),
         "--cut", "0,0,{TOP.width},{TOP.height+100}",
         "--text:x=40:y={TOP.height-47}:shadow=0:size=34:color=1,1,1,1:yalign=bottom",
         text_left[1],
         "--text:x=40:y={TOP.height-42}:shadow=0:size=24:color=1,1,1,1:yalign=top",
         text_left[2],
         "--text:x={TOP.width-40}:y={TOP.height-45}:shadow=0:size=34:color=1,1,1,1:yalign=center:xalign=right",
         text_right>>
    \o oiiotool_export(dst_path, "uint8", "jpeg:98", FALSE)

\* GeneratorFull.run
GeneratorFull_run(self, src_paths, dst_path, renderer) ==
    IF src_paths = <<>> THEN RunRaise("IndexError")
    ELSE IF renderer = None THEN RunRaise("AttributeError")
    ELSE LET src_path == src_paths[1]
             ocio_command == OcioConfigRenderer_to_oiiotool_command(renderer)
             text_left == <<renderer.name, DisplayViewText(renderer)>>
             text_right == Stem(src_path)
         IN IF ocio_command.exc # NoExc THEN RunRaise(ocio_command.exc)
            ELSE RunOk(dst_path,
                       GeneratorFull__run(self, src_path, dst_path,
                                          ocio_command.ret, text_left,
                                          text_right))

(***************************************************************************)
(* The commands: calls of the display conversion, of the export fragment   *)
(* and of the generators.  A behaviour makes one call.                     *)
(***************************************************************************)
\* a source image with a suffix: /a/p.e
PathPlate == PathV(TRUE, <<<<"a">>, <<"p", ".", "e">>>>)

\* the src_paths a run is given: none, one, or two
SourcePathLists == {<<>>, <<PathSrcA>>, <<PathPlate>>, <<PathSrcB, PathSrcA>>}

\* GeneratorExposureBands(), GeneratorExposureBands(0.3),
\* GeneratorExposureBands(0.45)
ExposureBandsInstances ==
    {[cls |-> "GeneratorExposureBands", params |-> [band_offset |-> o]] :
        o \in BandOffsets}

\* GeneratorFull(864), GeneratorFull(2048)
FullInstances ==
    {[cls |-> "GeneratorFull", params |-> [max_height |-> h]] :
        h \in {864, 2048}}

\* the look argument of oiiotool_ocio_display_convert
LookArgs == {None, TokenV(""), TokenV("punchy")}

CallDisplayConvert ==
    /\ frag = NoFrag
    /\ \E config \in PathConfigs, src_colorspace \in {"Linear Rec.709", "sRGB"},
          display \in {"sRGB", "Display P3"}, view \in {"v", "AgX"},
          look \in LookArgs :
        frag' = [op |-> "oiiotool_ocio_display_convert",
                 arg |-> [config |-> config, src_colorspace |-> src_colorspace,
                          display |-> display, view |-> view, look |-> look],
                 ret |-> oiiotool_ocio_display_convert(
                             config, src_colorspace, display, view, look),
                 exc |-> NoExc, bands |-> <<>>]
    /\ UNCHANGED <<asset, renders, manifest, descriptor, call, disk, proc>>

CallToOiiotoolCommand ==
    /\ frag = NoFrag
    /\ \E self \in Renderers :
        LET result == OcioConfigRenderer_to_oiiotool_command(self)
        IN frag' = [op |-> "OcioConfigRenderer.to_oiiotool_command",
                    arg |-> [self |-> self],
                    ret |-> result.ret, exc |-> result.exc, bands |-> <<>>]
    /\ UNCHANGED <<asset, renders, manifest, descriptor, call, disk, proc>>

CallExport ==
    /\ frag = NoFrag
    /\ \E target_path \in {PathDst, PathPlate}, bitdepth \in {"uint8", "half"},
          compression \in {"", "jpeg:98", "zips"}, srgb_encoded \in BOOLEAN :
        frag' = [op |-> "oiiotool_export",
                 arg |-> [target_path |-> target_path, bitdepth |-> bitdepth,
                          compression |-> compression,
                          srgb_encoded |-> srgb_encoded],
                 ret |-> oiiotool_export(target_path, bitdepth, compression,
                                         srgb_encoded),
                 exc |-> NoExc, bands |-> <<>>]
    /\ UNCHANGED <<asset, renders, manifest, descriptor, call, disk, proc>>

RunExposureBands ==
    /\ frag = NoFrag
    /\ \E self \in ExposureBandsInstances, src_paths \in SourcePathLists,
          renderer \in Renderers \cup {None} :
        LET result == GeneratorExposureBands_run(self, src_paths, PathDst,
                                                 renderer)
        IN frag' = [op |-> "GeneratorExposureBands.run",
                    arg |-> [self |-> self, src_paths |-> src_paths,
                             dst_path |-> PathDst, renderer |-> renderer],
                    ret |-> result.ret, exc |-> result.exc,
                    ran |-> result.ran, bands |-> <<>>]
    /\ UNCHANGED <<asset, renders, manifest, descriptor, call, disk, proc>>

RunFull ==
    /\ frag = NoFrag
    /\ \E self \in FullInstances, src_paths \in SourcePathLists,
          renderer \in Renderers \cup {None} :
        LET result == GeneratorFull_run(self, src_paths, PathDst, renderer)
        IN frag' = [op |-> "GeneratorFull.run",
                    arg |-> [self |-> self, src_paths |-> src_paths,
                             dst_path |-> PathDst, renderer |-> renderer],
                    ret |-> result.ret, exc |-> result.exc,
                    ran |-> result.ran, bands |-> <<>>]
    /\ UNCHANGED <<asset, renders, manifest, descriptor, call, disk, proc>>

NextCommands ==
    \/ CallDisplayConvert
    \/ CallToOiiotoolCommand
    \/ CallExport
    \/ RunExposureBands
    \/ RunFull
    \/ CallGenerateCombine

SpecCommands == InitFragments /\ [][NextCommands]_vars

(***************************************************************************)
(* Properties of the commands.                                             *)
(***************************************************************************)
\* C11: OcioConfigRenderer.to_oiiotool_command raises NotImplementedError
\* and returns no tokens for every descriptor whose src_colorspace differs
\* from ACES20651_COLORSPACE; it never falls back to another conversion.
C11_UnsupportedColorspace ==
    (/\ frag.op = "OcioConfigRenderer.to_oiiotool_command"
     /\ frag.arg.self.src_colorspace # ACES20651_COLORSPACE)
    => /\ frag.exc = "NotImplementedError"
       /\ frag.ret = <<>>

C11_Witness ==
    /\ frag.op = "OcioConfigRenderer.to_oiiotool_command"
    /\ frag.arg.self.src_colorspace = "sRGB"
    /\ frag.arg.self.look = "punchy"
    /\ frag.exc = "NotImplementedError"

\* the option of a look step and of a display step from a colorspace
OcioLookOption(from, to) ==
    "--ociolook:from=\"" \o from \o "\":to=\"" \o to \o "\""

OcioDisplayOption(from) == "--ociodisplay:from=\"" \o from \o "\""

\* the tokens C12 describes for a call of oiiotool_ocio_display_convert
DisplayConvertTokens(config, colorspace, display, view, look) ==
    <<"--colorconfig", PathToken(config)>>
    \o (IF look # "" THEN <<OcioLookOption(colorspace, colorspace), look>>
        ELSE <<>>)
    \o <<OcioDisplayOption(colorspace), display, view>>

\* C12: oiiotool_ocio_display_convert returns "--colorconfig" and the config
\* path, then the look step ("--ociolook" option and look name) if and only
\* if the look is non-empty, then the display step ("--ociodisplay" option,
\* display, view); the look step goes from and to the same colorspace, the
\* one the display step goes from.
C12_DisplayConvert ==
    frag.op = "oiiotool_ocio_display_convert"
    => LET a == frag.arg
           has_look == a.look # None /\ a.look.s # ""
           n == Len(frag.ret)
       IN /\ frag.exc = NoExc
          /\ SubSeq(frag.ret, 1, 2) = <<"--colorconfig", PathToken(a.config)>>
          /\ SubSeq(frag.ret, n - 2, n)
               = <<OcioDisplayOption(a.src_colorspace), a.display, a.view>>
          /\ has_look
               => /\ n = 7
                  /\ SubSeq(frag.ret, 3, 4)
                       = <<OcioLookOption(a.src_colorspace, a.src_colorspace),
                           a.look.s>>
          /\ ~has_look => n = 5

C12_Witness ==
    /\ frag.op = "oiiotool_ocio_display_convert"
    /\ frag.arg.look = TokenV("punchy")
    /\ frag.ret = <<"--colorconfig", "/c/o",
                    "--ociolook:from=\"sRGB\":to=\"sRGB\"", "punchy",
                    "--ociodisplay:from=\"sRGB\"", "Display P3", "AgX">>

\* C13: when src_colorspace is ACES20651_COLORSPACE, to_oiiotool_command
\* returns "--ccmatrix:transpose=1" and the nine matrix constants joined by
\* commas, immediately followed by the display conversion built from
\* config_path, srgb_lin, display, view and look.
C13_ReferenceColorspace ==
    (/\ frag.op = "OcioConfigRenderer.to_oiiotool_command"
     /\ frag.arg.self.src_colorspace = ACES20651_COLORSPACE)
    => LET self == frag.arg.self
       IN /\ frag.exc = NoExc
          /\ frag.ret
               = <<"--ccmatrix:transpose=1",
                   "2.521649,-1.136889,-0.384918,-0.275214,1.369705,-0.094392,-0.015925,-0.147806,1.163806">>
                 \o DisplayConvertTokens(self.config_path, self.srgb_lin,
                                         self.display, self.view, self.look)

C13_Witness ==
    /\ frag.op = "OcioConfigRenderer.to_oiiotool_command"
    /\ frag.arg.self = RendererAgX
    /\ frag.exc = NoExc
    /\ Len(frag.ret) = 9
    /\ frag.ret[5] = "--ociolook:from=\"Linear Rec.709\":to=\"Linear Rec.709\""
    /\ frag.ret[7] = "--ociodisplay:from=\"Linear Rec.709\""

\* the last k tokens of a command
LastTokens(command, k) == SubSeq(command, Len(command) - k + 1, Len(command))

\* C14: every command assembled by GeneratorExposureBands, GeneratorFull
\* and generate_combine ends with the export fragment: "-d" and the
\* bitdepth, then "--colorconvert" "linear" "sRGB" if and only if
\* srgb_encoded, then "--compression" and its value if and only if a
\* compression is given, then "-o" and the target path as the final two
\* tokens.
C14_ExportLast ==
    /\ frag.op = "oiiotool_export"
        => LET a == frag.arg
               n == Len(frag.ret)
               colorconvert == IF a.srgb_encoded THEN 3 ELSE 0
               compressed == IF a.compression # "" THEN 2 ELSE 0
           IN /\ n = 2 + colorconvert + compressed + 2
              /\ SubSeq(frag.ret, 1, 2) = <<"-d", a.bitdepth>>
              /\ Count(frag.ret, "--colorconvert") = colorconvert \div 3
              /\ a.srgb_encoded
                   => SubSeq(frag.ret, 3, 5) = <<"--colorconvert", "linear", "sRGB">>
              /\ Count(frag.ret, "--compression") = compressed \div 2
              /\ a.compression # ""
                   => SubSeq(frag.ret, n - 3, n - 2)
                        = <<"--compression", a.compression>>
              /\ LastTwo(frag.ret) = <<"-o", PathToken(a.target_path)>>
    /\ frag.op \in {"GeneratorExposureBands.run", "GeneratorFull.run"}
        => \A i \in 1..Len(frag.ran) :
              LastTokens(frag.ran[i], 6)
                = <<"-d", "uint8", "--compression", "jpeg:98",
                    "-o", PathToken(frag.arg.dst_path)>>
    /\ (frag.op = "generate_combine" /\ frag.exc = NoExc)
        => LastTokens(frag.ret, 6)
             = <<"-d", "uint8", "--compression", "jpeg:98",
                 "-o", PathToken(frag.arg.dst_path)>>

C14_Witness ==
    /\ frag.op = "GeneratorExposureBands.run"
    /\ frag.arg.self.params.band_offset = 45
    /\ frag.arg.renderer = RendererAgX
    /\ Len(frag.ran) = 1
    /\ LastTwo(frag.ran[1]) = <<"-o", "b/a">>

\* C15: GeneratorExposureBands.run and GeneratorFull.run reject a call with
\* zero source paths, with more than one source path, or with a null
\* renderer: they raise and give no command to subprocess.run.
C15_RunRejects ==
    (/\ frag.op \in {"GeneratorExposureBands.run", "GeneratorFull.run"}
     /\ \/ Len(frag.arg.src_paths) # 1
        \/ frag.arg.renderer = None)
    => /\ frag.exc # NoExc
       /\ frag.ran = <<>>

\* the crop token of a band of the given width at the given offset, both in
\* hundredths and not zero
CropToken(band_width, band_x_offset) ==
    "{TOP.width//" \o InverseFormat2f(band_width) \o "}x{TOP.height}+{TOP.width//"
    \o InverseFormat2f(band_x_offset) \o "}+0"

\* C16: for every band_x_offset in [0, 1), 0 included, and every odd
\* band_number, oiiotool_generate_expo_bands returns its command without
\* raising, and the crop token of each band is derived from the offset.
C16_EveryOffset ==
    (/\ frag.op = "oiiotool_generate_expo_bands"
     /\ frag.arg.band_number % 2 = 1
     /\ 0 <= frag.arg.band_x_offset
     /\ frag.arg.band_x_offset < 100)
    => /\ frag.exc = NoExc
       /\ (frag.arg.band_number >= 1 /\ frag.arg.band_x_offset # 0)
            => Count(frag.ret, CropToken(frag.arg.band_width,
                                         frag.arg.band_x_offset))
                 = frag.arg.band_number

\* path.stem of the source images
ExpectedStems == (PathSrcA :> "b") @@ (PathSrcB :> "ab") @@ (PathPlate :> "p")

\* C17: GeneratorFull(max_height=H) run with one source path and a renderer
\* whose to_oiiotool_command() returns tokens gives exactly one command to
\* subprocess.run: the tool path, "-i" and the source, the tokens of
\* to_oiiotool_command(), "--ch" "R,G,B", the resize to "0xH", the footer
\* "--cut", three "--text" overlays (renderer name; display, view and the
\* look only when it is not empty; source stem) and the export tokens ending
\* in "-o" and dst_path.
C17_FullCommand ==
    (/\ frag.op = "GeneratorFull.run"
     /\ Len(frag.arg.src_paths) = 1
     /\ frag.arg.renderer # None
     /\ frag.arg.renderer.src_colorspace = ACES20651_COLORSPACE)
    => LET renderer == frag.arg.renderer
           src_path == frag.arg.src_paths[1]
           tokens == OcioConfigRenderer_to_oiiotool_command(renderer).ret
           k == Len(tokens)
           command == frag.ran[1]
           legend == IF renderer.look = ""
                     THEN "(display='" \o renderer.display \o "', view='"
                          \o renderer.view \o "')"
                     ELSE "(display='" \o renderer.display \o "', view='"
                          \o renderer.view \o "', look='" \o renderer.look
                          \o "')"
       IN /\ frag.exc = NoExc
          /\ Len(frag.ran) = 1
          /\ Len(command) = 3 + k + 2 + 10 + 6
          /\ SubSeq(command, 1, 3) = <<OIIOTOOL, "-i", PathToken(src_path)>>
          /\ k > 0
          /\ SubSeq(command, 4, 3 + k) = tokens
          /\ SubSeq(command, k + 4, k + 5) = <<"--ch", "R,G,B">>
          /\ SubSeq(command, k + 6, k + 7)
               = <<"--resize:filter=box",
                   "0x" \o ToString(frag.arg.self.params.max_height)>>
          /\ SubSeq(command, k + 8, k + 9)
               = <<"--cut", "0,0,{TOP.width},{TOP.height+100}">>
          /\ SubSeq(command, k + 10, k + 15)
               = <<"--text:x=40:y={TOP.height-47}:shadow=0:size=34:color=1,1,1,1:yalign=bottom",
                   renderer.name,
                   "--text:x=40:y={TOP.height-42}:shadow=0:size=24:color=1,1,1,1:yalign=top",
                   legend,
                   "--text:x={TOP.width-40}:y={TOP.height-45}:shadow=0:size=34:color=1,1,1,1:yalign=center:xalign=right",
                   ExpectedStems[src_path]>>
          /\ LastTokens(command, 6)
               = <<"-d", "uint8", "--compression", "jpeg:98",
                   "-o", PathToken(frag.arg.dst_path)>>

C17_Witness ==
    /\ frag.op = "GeneratorFull.run"
    /\ frag.arg.self.params.max_height = 2048
    /\ frag.arg.src_paths = <<PathPlate>>
    /\ frag.arg.renderer = RendererNative
    /\ Len(frag.ran) = 1
    /\ frag.ran[1][2] = "-i"
    /\ frag.ran[1][3] = "/a/p.e"
    /\ frag.ran[1][14] = "0x2048"
    /\ frag.ran[1][20] = "(display='sRGB', view='v')"
    /\ frag.ran[1][22] = "p"

(***************************************************************************)
(* renderer/_builders.py : the renderer builders and their registry.  A    *)
(* builder instance is its class and the path it was made with.            *)
(***************************************************************************)
\* RENDERER_BUILDERS: the builder classes, in the order of the list
RENDERER_BUILDERS ==
    <<"AgXBuilder",
      "AgXBlenderBuilder",
      "AgXcBuilder",
      "TCAMBuilder",
      "ARRIBuilder",
      "ACES13gmBuilder",
      "ACES2gmBuilder",
      "ACES2Builder",
      "NativeBuilder",
      "OpenDRTBuilder",
      "DRT2499Builder",
      "Kodak2383Builder">>

\* variant of identifier in which the builders derived from ACES2gmBuilder
\* keep its identifier
identifier_inherited(cls) ==
    CASE cls = "AgXBuilder" -> "AgX"
      [] cls = "AgXBlenderBuilder" -> "AgX.blender"
      [] cls = "AgXcBuilder" -> "AgXc"
      [] cls = "TCAMBuilder" -> "TCAMv3"
      [] cls = "ARRIBuilder" -> "ARRIreveal"
      [] cls = "ACES13gmBuilder" -> "ACESv1.3-gm"
      [] cls = "ACES2gmBuilder" -> "ACESv2.0-gm"
      [] cls = "ACES2Builder" -> "ACESv2.0-gm"
      [] cls = "NativeBuilder" -> "ACESv2.0-gm"
      [] cls = "OpenDRTBuilder" -> "OpenDRT"
      [] cls = "DRT2499Builder" -> "2499DRT"
      [] cls = "Kodak2383Builder" -> "Kodak2383"

\* the class attribute identifier of a builder class
identifier(cls) ==
    CASE cls = "AgXBuilder" -> "AgX"
      [] cls = "AgXBlenderBuilder" -> "AgX.blender"
      [] cls = "AgXcBuilder" -> "AgXc"
      [] cls = "TCAMBuilder" -> "TCAMv3"
      [] cls = "ARRIBuilder" -> "ARRIreveal"
      [] cls = "ACES13gmBuilder" -> "ACESv1.3-gm"
      [] cls = "ACES2gmBuilder" -> "ACESv2.0-gm"
      [] cls = "ACES2Builder" -> "ACESv2.0"
      [] cls = "NativeBuilder" -> "native"
      [] cls = "OpenDRTBuilder" -> "OpenDRT"
      [] cls = "DRT2499Builder" -> "2499DRT"
      [] cls = "Kodak2383Builder" -> "Kodak2383"

\* the class attribute source_url of a builder class; ACES2Builder and
\* NativeBuilder take it from ACES2gmBuilder
source_url(cls) ==
    CASE cls = "AgXBuilder" ->
            "https://github.com/sobotka/AgX/archive/1ba3230e6f2c825003d9e139750edd233b6a906e.zip"
      [] cls = "AgXBlenderBuilder" ->
            "https://projects.blender.org/blender/blender/archive/v4.2.7.zip"
      [] cls = "AgXcBuilder" ->
            "https://github.com/MrLixm/AgXc/archive/3e78f1541b06191ae3a8e2efce1b74c2a8b8d23f.zip"
      [] cls = "TCAMBuilder" ->
            "https://www.filmlight.ltd.uk/resources/download.php"
      [] cls = "ARRIBuilder" ->
            "https://www.arri.com/resource/blob/280728/7933fd1ce4de9165b906936661ab54eb/arri-logc4-lut-package-data.zip"
      [] cls = "ACES13gmBuilder" ->
            "https://github.com/AcademySoftwareFoundation/OpenColorIO-Config-ACES/releases/download/v2.1.0-v2.2.0/studio-config-v2.1.0_aces-v1.3_ocio-v2.1.ocio"
      [] cls = "ACES2gmBuilder" ->
            "https://github.com/AcademySoftwareFoundation/OpenColorIO-Config-ACES/releases/download/v3.0.0/studio-config-all-views-v3.0.0_aces-v2.0_ocio-v2.4.ocio"
      [] cls = "ACES2Builder" ->
            "https://github.com/AcademySoftwareFoundation/OpenColorIO-Config-ACES/releases/download/v3.0.0/studio-config-all-views-v3.0.0_aces-v2.0_ocio-v2.4.ocio"
      [] cls = "NativeBuilder" ->
            "https://github.com/AcademySoftwareFoundation/OpenColorIO-Config-ACES/releases/download/v3.0.0/studio-config-all-views-v3.0.0_aces-v2.0_ocio-v2.4.ocio"
      [] cls = "OpenDRTBuilder" ->
            "https://github.com/chrisbrejon/OpenDRT-OCIO-Config/archive/58a630cce6f4167c52928f6ba28ab1de083fe6cc.zip"
      [] cls = "DRT2499Builder" ->
            "https://github.com/Joegenco/PixelManager/archive/c8716a42c7e03c6573915ad24f19eccfc39f687c.zip"
      [] cls = "Kodak2383Builder" ->
            "https://www.dropbox.com/s/qn62wg07f21jydp/LMT%20Kodak%202383%20Print%20Emulation.xml?dl=0"

\* path / name / ... for names that are relative: the names become the last
\* components
PathDiv(path, names) == [path EXCEPT !.parts = @ \o names]

\* AgXBuilder.get_ocio_config_path: self.path / f"AgX-{self.git_ref}" / "config.ocio"
AgXBuilder_get_ocio_config_path(self) ==
    PathDiv(self.path,
            <<<<"A", "g", "X", "-", "1", "b", "a", "3", "2", "3", "0", "e",
                "6", "f", "2", "c", "8", "2", "5", "0", "0",
                "3", "d", "9", "e", "1", "3", "9", "7", "5",
                "0", "e", "d", "d", "2", "3", "3", "b", "6",
                "a", "9", "0", "6", "e">>,
              <<"c", "o", "n", "f", "i", "g", ".", "o", "c", "i", "o">>>>)

\* AgXBlenderBuilder.get_ocio_config_path: self.path / "ocio" / "config.ocio"
AgXBlenderBuilder_get_ocio_config_path(self) ==
    PathDiv(self.path,
            <<<<"o", "c", "i", "o">>,
              <<"c", "o", "n", "f", "i", "g", ".", "o", "c", "i", "o">>>>)

\* AgXcBuilder.get_ocio_config_path: ( self.path / f"AgXc-{self.git_ref}" / "ocio" / "AgXc_default_OCIO-v2" / "config.ocio" )
AgXcBuilder_get_ocio_config_path(self) ==
    PathDiv(self.path,
            <<<<"A", "g", "X", "c", "-", "3", "e", "7", "8", "f", "1", "5",
                "4", "1", "b", "0", "6", "1", "9", "1", "a",
                "e", "3", "a", "8", "e", "2", "e", "f", "c",
                "e", "1", "b", "7", "4", "c", "2", "a", "8",
                "b", "8", "d", "2", "3", "f">>,
              <<"o", "c", "i", "o">>,
              <<"A", "g", "X", "c", "_", "d", "e", "f", "a", "u", "l", "t",
                "_", "O", "C", "I", "O", "-", "v", "2">>,
              <<"c", "o", "n", "f", "i", "g", ".", "o", "c", "i", "o">>>>)

\* TCAMBuilder.get_ocio_config_path: self.path / "TCS_TCAMv3" / "TCS_TCAMv3.ocio"
TCAMBuilder_get_ocio_config_path(self) ==
    PathDiv(self.path,
            <<<<"T", "C", "S", "_", "T", "C", "A", "M", "v", "3">>,
              <<"T", "C", "S", "_", "T", "C", "A", "M", "v", "3", ".", "o",
                "c", "i", "o">>>>)

\* ARRIBuilder.get_ocio_config_path: self.path / self.aces_url.split("/")[-1]
ARRIBuilder_get_ocio_config_path(self) ==
    PathDiv(self.path,
            <<<<"s", "t", "u", "d", "i", "o", "-", "c", "o", "n", "f", "i",
                "g", "-", "a", "l", "l", "-", "v", "i", "e",
                "w", "s", "-", "v", "3", ".", "0", ".", "0",
                "_", "a", "c", "e", "s", "-", "v", "2", ".",
                "0", "_", "o", "c", "i", "o", "-", "v", "2",
                ".", "4", ".", "o", "c", "i", "o">>>>)

\* ACES13gmBuilder.get_ocio_config_path: self.path / self.source_url.split("/")[-1]
ACES13gmBuilder_get_ocio_config_path(self) ==
    PathDiv(self.path,
            <<<<"s", "t", "u", "d", "i", "o", "-", "c", "o", "n", "f", "i",
                "g", "-", "v", "2", ".", "1", ".", "0", "_",
                "a", "c", "e", "s", "-", "v", "1", ".", "3",
                "_", "o", "c", "i", "o", "-", "v", "2", ".",
                "1", ".", "o", "c", "i", "o">>>>)

\* ACES2gmBuilder.get_ocio_config_path: self.path / self.source_url.split("/")[-1]
ACES2gmBuilder_get_ocio_config_path(self) ==
    PathDiv(self.path,
            <<<<"s", "t", "u", "d", "i", "o", "-", "c", "o", "n", "f", "i",
                "g", "-", "a", "l", "l", "-", "v", "i", "e",
                "w", "s", "-", "v", "3", ".", "0", ".", "0",
                "_", "a", "c", "e", "s", "-", "v", "2", ".",
                "0", "_", "o", "c", "i", "o", "-", "v", "2",
                ".", "4", ".", "o", "c", "i", "o">>>>)

\* OpenDRTBuilder.get_ocio_config_path: self.path / "ocio" / "config.ocio"
OpenDRTBuilder_get_ocio_config_path(self) ==
    PathDiv(self.path,
            <<<<"o", "c", "i", "o">>,
              <<"c", "o", "n", "f", "i", "g", ".", "o", "c", "i", "o">>>>)

\* DRT2499Builder.get_ocio_config_path: self.path / "ocio" / "config.ocio"
DRT2499Builder_get_ocio_config_path(self) ==
    PathDiv(self.path,
            <<<<"o", "c", "i", "o">>,
              <<"c", "o", "n", "f", "i", "g", ".", "o", "c", "i", "o">>>>)

\* Kodak2383Builder.get_ocio_config_path: self.path / self.aces_url.split("/")[-1]
Kodak2383Builder_get_ocio_config_path(self) ==
    PathDiv(self.path,
            <<<<"s", "t", "u", "d", "i", "o", "-", "c", "o", "n", "f", "i",
                "g", "-", "a", "l", "l", "-", "v", "i", "e",
                "w", "s", "-", "v", "3", ".", "0", ".", "0",
                "_", "a", "c", "e", "s", "-", "v", "2", ".",
                "0", "_", "o", "c", "i", "o", "-", "v", "2",
                ".", "4", ".", "o", "c", "i", "o">>>>)

\* self.get_ocio_config_path(): the method of the class of self; ACES2Builder
\* and NativeBuilder have the one of ACES2gmBuilder
get_ocio_config_path(self) ==
    CASE self.cls = "AgXBuilder" -> AgXBuilder_get_ocio_config_path(self)
      [] self.cls = "AgXBlenderBuilder" -> AgXBlenderBuilder_get_ocio_config_path(self)
      [] self.cls = "AgXcBuilder" -> AgXcBuilder_get_ocio_config_path(self)
      [] self.cls = "TCAMBuilder" -> TCAMBuilder_get_ocio_config_path(self)
      [] self.cls = "ARRIBuilder" -> ARRIBuilder_get_ocio_config_path(self)
      [] self.cls = "ACES13gmBuilder" -> ACES13gmBuilder_get_ocio_config_path(self)
      [] self.cls = "ACES2gmBuilder" -> ACES2gmBuilder_get_ocio_config_path(self)
      [] self.cls = "ACES2Builder" -> ACES2gmBuilder_get_ocio_config_path(self)
      [] self.cls = "NativeBuilder" -> ACES2gmBuilder_get_ocio_config_path(self)
      [] self.cls = "OpenDRTBuilder" -> OpenDRTBuilder_get_ocio_config_path(self)
      [] self.cls = "DRT2499Builder" -> DRT2499Builder_get_ocio_config_path(self)
      [] self.cls = "Kodak2383Builder" -> Kodak2383Builder_get_ocio_config_path(self)

\* AgXBuilder.get_renderer
AgXBuilder_get_renderer(self) ==
    [name |-> "AgX",
     filename |-> identifier(self.cls),
     description |-> "The original AgX algorithm by Troy Sobotka.",
     config_path |-> get_ocio_config_path(self),
     srgb_lin |-> "Linear BT.709",
     display |-> "sRGB",
     view |-> "Appearance Punchy",
     look |-> "",
     src_colorspace |-> ACES20651_COLORSPACE,
     source_url |-> source_url(self.cls),
     references |->
         <<"https://github.com/sobotka/AgX",
           "https://blenderartists.org/t/feedback-development-filmic-baby-step-to-a-v2/1361663">>]

\* AgXBlenderBuilder.get_renderer
AgXBlenderBuilder_get_renderer(self) ==
    [name |-> "AgX Blender-4.2.7",
     filename |-> identifier(self.cls),
     description |-> "The improved AgX algorithm implemented in Blender.",
     config_path |-> get_ocio_config_path(self),
     srgb_lin |-> "Linear Rec.709",
     display |-> "sRGB",
     view |-> "AgX",
     look |-> "AgX - Punchy",
     src_colorspace |-> ACES20651_COLORSPACE,
     source_url |-> source_url(self.cls),
     references |->
         <<"https://projects.blender.org/blender/blender/pulls/106355",
           "https://github.com/EaryChow/AgX",
           "https://blenderartists.org/t/feedback-development-filmic-baby-step-to-a-v2/1361663">>]

\* AgXcBuilder.get_renderer
AgXcBuilder_get_renderer(self) ==
    [name |-> "AgXc v1.0",
     filename |-> identifier(self.cls),
     description |->
         "Another custom variant of AgX, closer to Blender variant. Still in development.",
     config_path |-> get_ocio_config_path(self),
     srgb_lin |-> "sRGB-linear",
     display |-> "sRGB-2.2",
     view |-> "AgXc.base Punchy",
     look |-> "",
     src_colorspace |-> ACES20651_COLORSPACE,
     source_url |-> source_url(self.cls),
     references |->
         <<"https://github.com/MrLixm/AgXc",
           "https://github.com/MrLixm/AgXc/pull/35">>]

\* variant of TCAMBuilder.get_renderer whose filename is the name of the
\* directory of the config
TCAMBuilder_get_renderer_tcs(self) ==
    [name |-> "T-CAM v3",
     filename |-> "TCS_TCAMv3",
     description |->
         "Filmlight's color pipeline. Initially designed for their Baselight grading tool but for which they still provide an OCIO configuration.",
     config_path |-> get_ocio_config_path(self),
     srgb_lin |-> "CGI: Linear : Rec.709",
     display |-> "sRGB Display: 2.2 Gamma : Rec.709 Truelight CAM v3",
     view |-> "sRGB Display: 2.2 Gamma : Rec.709",
     look |-> "",
     src_colorspace |-> ACES20651_COLORSPACE,
     source_url |-> source_url(self.cls),
     references |-> <<"https://www.filmlight.ltd.uk/support/customer-login/colourspaces/colourspaces.php">>]

\* TCAMBuilder.get_renderer
TCAMBuilder_get_renderer(self) ==
    [name |-> "T-CAM v3",
     filename |-> "TCAMv3",
     description |->
         "Filmlight's color pipeline. Initially designed for their Baselight grading tool but for which they still provide an OCIO configuration.",
     config_path |-> get_ocio_config_path(self),
     srgb_lin |-> "CGI: Linear : Rec.709",
     display |-> "sRGB Display: 2.2 Gamma : Rec.709 Truelight CAM v3",
     view |-> "sRGB Display: 2.2 Gamma : Rec.709",
     look |-> "",
     src_colorspace |-> ACES20651_COLORSPACE,
     source_url |-> source_url(self.cls),
     references |-> <<"https://www.filmlight.ltd.uk/support/customer-login/colourspaces/colourspaces.php">>]

\* ARRIBuilder.get_renderer
ARRIBuilder_get_renderer(self) ==
    [name |-> "ARRI Reveal",
     filename |-> identifier(self.cls),
     description |->
         "The ARRI \"color-science\" pipeline, based on their provided display LUTs. Injected in the studio-config-all-views-v3.0.0_aces-v2.0_ocio-v2.4.ocio config.",
     config_path |-> get_ocio_config_path(self),
     srgb_lin |-> "Linear Rec.709 (sRGB)",
     display |-> "sRGB - 2.2",
     view |-> "ARRI Reveal",
     look |-> "",
     src_colorspace |-> ACES20651_COLORSPACE,
     source_url |-> source_url(self.cls),
     references |->
         <<"https://www.arri.com/en/learn-help/learn-help-camera-system/tools/lut-generator",
           "https://www.arri.com/en/learn-help/learn-help-camera-system/image-science/reveal-color-science">>]

\* ACES13gmBuilder.get_renderer
ACES13gmBuilder_get_renderer(self) ==
    [name |-> "ACES v1.3 + Gamut Mapping",
     filename |-> identifier(self.cls),
     description |->
         "The Academy Color Encoding System on major version 1, with their \"Gamut Compression\" look.The config has been edited to add an sRGB-2.2 Display.",
     config_path |-> get_ocio_config_path(self),
     srgb_lin |-> "Linear Rec.709 (sRGB)",
     display |-> "sRGB - 2.2",
     view |-> "ACES 1.0 - SDR Video",
     look |-> "ACES 1.3 Reference Gamut Compression",
     src_colorspace |-> ACES20651_COLORSPACE,
     source_url |-> source_url(self.cls),
     references |-> <<"https://community.acescentral.com/">>]

\* ACES2gmBuilder.get_renderer
ACES2gmBuilder_get_renderer(self) ==
    [name |-> "ACES v2.0 + Gamut Mapping",
     filename |-> identifier(self.cls),
     description |->
         "The Academy Color Encoding System on major version 2, with their \"Gamut Compression\" look.The config has been edited to add an sRGB-2.2 Display.",
     config_path |-> get_ocio_config_path(self),
     srgb_lin |-> "Linear Rec.709 (sRGB)",
     display |-> "sRGB - 2.2",
     view |-> "ACES 2.0 - SDR 100 nits (Rec.709)",
     look |-> "ACES 1.3 Reference Gamut Compression",
     src_colorspace |-> ACES20651_COLORSPACE,
     source_url |-> source_url(self.cls),
     references |-> <<"https://community.acescentral.com/">>]

\* variant of dataclasses.replace that assigns the changes to the given
\* instance and returns it
dataclasses_replace_inplace(obj, changes) ==
    LET new == [f \in DOMAIN obj |->
                   IF f \in DOMAIN changes THEN changes[f] ELSE obj[f]]
    IN [new |-> new, obj |-> new]

\* dataclasses.replace(obj, **changes): a new instance with the fields of
\* obj, those of changes replaced; obj is what the given instance is after
\* the call
dataclasses_replace(obj, changes) ==
    [new |-> [f \in DOMAIN obj |->
                 IF f \in DOMAIN changes THEN changes[f] ELSE obj[f]],
     obj |-> obj]

\* ACES2Builder.get_renderer: the call of dataclasses.replace on the
\* renderer of super().get_renderer()
ACES2Builder_replace(self) ==
    dataclasses_replace(ACES2gmBuilder_get_renderer(self),
        [name |-> "ACES v2.0 ",
         filename |-> identifier(self.cls),
         description |->
             "The Academy Color Encoding System on major version 2.The config has been edited to add an sRGB-2.2 Display.",
         srgb_lin |-> "Linear Rec.709 (sRGB)",
         display |-> "sRGB - 2.2",
         view |-> "ACES 2.0 - SDR 100 nits (Rec.709)",
         look |-> "",
         references |-> <<"https://community.acescentral.com/">>])

\* ACES2Builder.get_renderer
ACES2Builder_get_renderer(self) == ACES2Builder_replace(self).new

\* NativeBuilder.get_renderer: the call of dataclasses.replace on the
\* renderer of super().get_renderer()
NativeBuilder_replace(self) ==
    dataclasses_replace(ACES2gmBuilder_get_renderer(self),
        [name |-> "Native (no image formation)",
         filename |-> "native",
         description |->
             "No picture formation is applied, anything outside the destination volume is clipped.",
         srgb_lin |-> "Linear Rec.709 (sRGB)",
         display |-> "sRGB - 2.2",
         view |-> "Un-tone-mapped",
         look |-> "",
         references |-> <<>>])

\* NativeBuilder.get_renderer
NativeBuilder_get_renderer(self) == NativeBuilder_replace(self).new

\* OpenDRTBuilder.get_renderer
OpenDRTBuilder_get_renderer(self) ==
    [name |-> "OpenDRT v1.0.0",
     filename |-> identifier(self.cls),
     description |->
         "An open source display rendering transform authored by Jed Smith. Using the version 1.0.0 which has been converted to OCIO by Chris Brejon.",
     config_path |-> get_ocio_config_path(self),
     srgb_lin |-> "linear",
     display |-> "sRGB - 2.2 100 nits video dim",
     view |-> "OpenDRT 1.0.0",
     look |-> "",
     src_colorspace |-> ACES20651_COLORSPACE,
     source_url |-> source_url(self.cls),
     references |-> <<"https://github.com/jedypod/open-display-transform">>]

\* DRT2499Builder.get_renderer
DRT2499Builder_get_renderer(self) ==
    [name |-> "2499DRT",
     filename |-> identifier(self.cls),
     description |->
         "A .dctl algorithm by Juan Pablo Zambrano; targeting colorists. Converted to OCIO by Joegen.",
     config_path |-> get_ocio_config_path(self),
     srgb_lin |-> "Linear Rec.709",
     display |-> "sRGB",
     view |-> "JP2499DRT",
     look |-> "",
     src_colorspace |-> ACES20651_COLORSPACE,
     source_url |-> source_url(self.cls),
     references |-> <<"https://github.com/JuanPabloZambrano/DCTL/tree/main/2499_DRT">>]

\* Kodak2383Builder.get_renderer
Kodak2383Builder_get_renderer(self) ==
    [name |-> "Kodak2383",
     filename |-> identifier(self.cls),
     description |->
         "The iconic Kodak2383 print film simulation LUT, authored by Blackmagic as an ACES LMT. Injected in the studio-config-all-views-v3.0.0_aces-v2.0_ocio-v2.4.ocio config.",
     config_path |-> get_ocio_config_path(self),
     srgb_lin |-> "Linear Rec.709 (sRGB)",
     display |-> "sRGB - 2.2",
     view |-> "Kodak2383",
     look |-> "",
     src_colorspace |-> ACES20651_COLORSPACE,
     source_url |-> source_url(self.cls),
     references |->
         <<"https://community.acescentral.com/t/lmts-part-1-what-are-they-and-what-can-they-do-for-me/790/10?u=mrlixm",
           "https://www.kodak.com/en/motion/product/post/print-films/vision-color-2383-3383/">>]

\* self.get_renderer(): the method of the class of self
get_renderer(self) ==
    CASE self.cls = "AgXBuilder" -> AgXBuilder_get_renderer(self)
      [] self.cls = "AgXBlenderBuilder" -> AgXBlenderBuilder_get_renderer(self)
      [] self.cls = "AgXcBuilder" -> AgXcBuilder_get_renderer(self)
      [] self.cls = "TCAMBuilder" -> TCAMBuilder_get_renderer(self)
      [] self.cls = "ARRIBuilder" -> ARRIBuilder_get_renderer(self)
      [] self.cls = "ACES13gmBuilder" -> ACES13gmBuilder_get_renderer(self)
      [] self.cls = "ACES2gmBuilder" -> ACES2gmBuilder_get_renderer(self)
      [] self.cls = "ACES2Builder" -> ACES2Builder_get_renderer(self)
      [] self.cls = "NativeBuilder" -> NativeBuilder_get_renderer(self)
      [] self.cls = "OpenDRTBuilder" -> OpenDRTBuilder_get_renderer(self)
      [] self.cls = "DRT2499Builder" -> DRT2499Builder_get_renderer(self)
      [] self.cls = "Kodak2383Builder" -> Kodak2383Builder_get_renderer(self)

\* {b.identifier: b for b in RENDERER_BUILDERS}: a later entry replaces an
\* earlier one of the same identifier
RENDERER_BUILDERS_BY_ID ==
    [id \in {identifier(RENDERER_BUILDERS[i]) : i \in DOMAIN RENDERER_BUILDERS} |->
        LET last == CHOOSE i \in DOMAIN RENDERER_BUILDERS :
                        /\ identifier(RENDERER_BUILDERS[i]) = id
                        /\ \A j \in DOMAIN RENDERER_BUILDERS :
                               identifier(RENDERER_BUILDERS[j]) = id => j <= i
        IN RENDERER_BUILDERS[last]]

\* a class object as a value
ClassV(name) == [t |-> "class", name |-> name]

\* RENDERER_BUILDERS_BY_ID.get(u_identifier)
RENDERER_BUILDERS_BY_ID_get(u_identifier) ==
    IF u_identifier \in DOMAIN RENDERER_BUILDERS_BY_ID
    THEN ClassV(RENDERER_BUILDERS_BY_ID[u_identifier])
    ELSE None

(***************************************************************************)
(* comparison.py : what happens when the module is loaded with a given     *)
(* list of generator classes.                                              *)
(***************************************************************************)
\* the value of BaseGenerator.shortname and BaseGenerator.description
NotImplementedV == "@NotImplemented@"

\* the ClassVar description of a generator class
description(cls) ==
    CASE cls = "GeneratorExposureBands"
            -> "generate bands of gradually increasing exposure"
      [] cls = "GeneratorFull"
            -> "render the whole area of the image and resize it"
      [] cls = "GeneratorCombined" -> ""

\* a generator class with its two ClassVars
GeneratorClass(name, short, desc) ==
    [name |-> name, shortname |-> short, description |-> desc]

\* the generator classes of the module, in the order of GENERATORS
DeclaredGenerators ==
    [i \in DOMAIN GENERATORS |->
        GeneratorClass(GENERATORS[i], shortname(GENERATORS[i]),
                       description(GENERATORS[i]))]

\* the loop over BaseGenerator.__subclasses__(): each subclass must have set
\* its own shortname and description
RegistrationCheck(subclasses) ==
    IF \E i \in DOMAIN subclasses :
          \/ subclasses[i].shortname = NotImplementedV
          \/ subclasses[i].description = NotImplementedV
    THEN Raise("AssertionError")
    ELSE Ok(None)

\* {gen.shortname: gen for gen in generators}
GeneratorsByShortname(generators) ==
    [s \in {generators[i].shortname : i \in DOMAIN generators} |->
        LET last == CHOOSE i \in DOMAIN generators :
                        /\ generators[i].shortname = s
                        /\ \A j \in DOMAIN generators :
                               generators[j].shortname = s => j <= i
        IN generators[last]]

\* the end of the module body: the registration check, then GENERATORS and
\* _GENERATORS_BY_SHORTNAME; the result is the registry
LoadGenerators(generators) ==
    LET checked == RegistrationCheck(generators)
    IN IF checked.exc # NoExc THEN Raise(checked.exc)
       ELSE Ok(GeneratorsByShortname(generators))

\* _GENERATORS_BY_SHORTNAME[as_dict["generator"][0]] in
\* ComparisonRender.from_dict
RegistryLookup(registry, short) ==
    IF short \in DOMAIN registry THEN Ok(registry[short])
    ELSE Raise("KeyError")

(***************************************************************************)
(* The registries: lookups of builders, calls of their methods, and loads  *)
(* of the comparison module with one more generator class.                 *)
(***************************************************************************)
\* the directories a builder is made with
BuilderPaths ==
    {PathV(TRUE, <<<<"r">>>>), PathV(FALSE, <<<<"r">>, <<"x">>>>),
     PathV(FALSE, <<>>), PathAsset}

\* builder instances B(p)
Builders ==
    {[cls |-> RENDERER_BUILDERS[i], path |-> p] :
        i \in DOMAIN RENDERER_BUILDERS, p \in BuilderPaths}

\* the identifiers given on the command line
IdentifierInputs ==
    {identifier(RENDERER_BUILDERS[i]) : i \in DOMAIN RENDERER_BUILDERS}
    \cup {"ACESv2.0-gm-native"}

\* one more generator class, written without care for the other shortnames
ExtraGenerators ==
    {GeneratorClass("GeneratorMosaic", short, desc) :
        short \in {"mosaic", "full", "exposures", NotImplementedV},
        desc \in {"tile the images", NotImplementedV}}

\* the lists of generator classes the module is loaded with
GeneratorLists ==
    {DeclaredGenerators}
    \cup {Append(DeclaredGenerators, extra) : extra \in ExtraGenerators}

LookupBuilder ==
    /\ \E u_identifier \in IdentifierInputs :
        call' = Called("RENDERER_BUILDERS_BY_ID.get", None, u_identifier,
                       Ok(RENDERER_BUILDERS_BY_ID_get(u_identifier)))
    /\ UNCHANGED <<asset, renders, manifest, descriptor, frag, disk, proc>>

GetOcioConfigPath ==
    /\ \E self \in Builders :
        call' = Called("get_ocio_config_path", self, None,
                       Ok(get_ocio_config_path(self)))
    /\ UNCHANGED <<asset, renders, manifest, descriptor, frag, disk, proc>>

GetRenderer ==
    /\ \E self \in Builders :
        call' = Called("get_renderer", self, None, Ok(get_renderer(self)))
    /\ UNCHANGED <<asset, renders, manifest, descriptor, frag, disk, proc>>

LoadComparison ==
    /\ \E generators \in GeneratorLists :
        call' = Called("import comparison", None, generators,
                       LoadGenerators(generators))
    /\ UNCHANGED <<asset, renders, manifest, descriptor, frag, disk, proc>>

LookupGenerator ==
    /\ call.op = "import comparison"
    /\ call.exc = NoExc
    /\ \E short \in DOMAIN call.ret \cup UnknownShortnames :
        call' = Called("_GENERATORS_BY_SHORTNAME[]", call.arg, short,
                       RegistryLookup(call.ret, short))
    /\ UNCHANGED <<asset, renders, manifest, descriptor, frag, disk, proc>>

\* the builders whose get_renderer derives the descriptor of the base class
DerivedBuilders == {"ACES2Builder", "NativeBuilder"}

\* the body of get_renderer of a derived builder: super().get_renderer(),
\* then dataclasses.replace; descriptor is the instance that super() returned,
\* as it is after the call
ReplaceRenderer ==
    /\ \E self \in Builders :
        /\ self.cls \in DerivedBuilders
        /\ LET replaced == IF self.cls = "ACES2Builder"
                           THEN ACES2Builder_replace(self)
                           ELSE NativeBuilder_replace(self)
           IN /\ call' = Called("dataclasses.replace", self,
                                ACES2gmBuilder_get_renderer(self),
                                Ok(replaced.new))
              /\ descriptor' = replaced.obj
    /\ UNCHANGED <<asset, renders, manifest, frag, disk, proc>>

NextRegistry ==
    \/ LookupBuilder
    \/ GetOcioConfigPath
    \/ GetRenderer
    \/ LoadComparison
    \/ LookupGenerator
    \/ ReplaceRenderer

SpecRegistry == InitFragments /\ [][NextRegistry]_vars

(***************************************************************************)
(* Properties of the registries.                                           *)
(***************************************************************************)
\* the values of a sequence are pairwise distinct
Distinct(seq) ==
    \A i, j \in DOMAIN seq : i # j => seq[i] # seq[j]

\* C18: the identifiers of RENDERER_BUILDERS are pairwise distinct, so that
\* RENDERER_BUILDERS_BY_ID has one entry per builder and gives each builder
\* back under its identifier; the shortnames of GENERATORS are pairwise
\* distinct, so that _GENERATORS_BY_SHORTNAME has one entry per generator.
C18_DistinctKeys ==
    /\ Distinct([i \in DOMAIN RENDERER_BUILDERS |->
                    identifier(RENDERER_BUILDERS[i])])
    /\ Cardinality(DOMAIN RENDERER_BUILDERS_BY_ID) = Len(RENDERER_BUILDERS)
    /\ \A i \in DOMAIN RENDERER_BUILDERS :
          RENDERER_BUILDERS_BY_ID[identifier(RENDERER_BUILDERS[i])]
            = RENDERER_BUILDERS[i]
    /\ Distinct([i \in DOMAIN GENERATORS |-> shortname(GENERATORS[i])])
    /\ Cardinality(DOMAIN GENERATORS_BY_SHORTNAME) = Len(GENERATORS)
    /\ (call.op = "RENDERER_BUILDERS_BY_ID.get" /\ call.ret # None)
        => identifier(call.ret.name) = call.arg
    /\ (call.op = "import comparison" /\ call.arg = DeclaredGenerators)
        => /\ call.exc = NoExc
           /\ Cardinality(DOMAIN call.ret) = Len(GENERATORS)

C18_Witness ==
    /\ call.op = "RENDERER_BUILDERS_BY_ID.get"
    /\ call.arg = "ACESv2.0-gm"
    /\ call.ret = ClassV("ACES2gmBuilder")

\* C19: loading the comparison module fails with an AssertionError whenever
\* two generator classes have the same shortname, so that a lookup in
\* from_dict never uses a registry built from such classes.
C19_CollisionFailsFast ==
    /\ (call.op = "import comparison"
        /\ ~Distinct([i \in DOMAIN call.arg |-> call.arg[i].shortname]))
        => call.exc = "AssertionError"
    /\ call.op = "_GENERATORS_BY_SHORTNAME[]"
        => Distinct([i \in DOMAIN call.origin |-> call.origin[i].shortname])

\* C20: for every builder class B of RENDERER_BUILDERS and every path p,
\* B(p).get_renderer() has the filename B.identifier and the config_path
\* B(p).get_ocio_config_path(); ACES2Builder and NativeBuilder included.
C20_FilenameIsIdentifier ==
    call.op = "get_renderer"
    => /\ call.exc = NoExc
       /\ DOMAIN call.ret = OcioFields
       /\ call.ret.filename = identifier(call.origin.cls)
       /\ call.ret.filename \in DOMAIN RENDERER_BUILDERS_BY_ID
       /\ RENDERER_BUILDERS_BY_ID[call.ret.filename] = call.origin.cls
       /\ call.ret.config_path = get_ocio_config_path(call.origin)
       /\ call.ret.config_path.parts
            = call.origin.path.parts
              \o SubSeq(call.ret.config_path.parts,
                        Len(call.origin.path.parts) + 1,
                        Len(call.ret.config_path.parts))

C20_Witness ==
    /\ call.op = "get_renderer"
    /\ call.origin = [cls |-> "NativeBuilder", path |-> PathV(TRUE, <<<<"r">>>>)]
    /\ call.ret.filename = "native"
    /\ call.ret.look = ""
    /\ Text(PathStr(call.ret.config_path).s)
         = "/r/studio-config-all-views-v3.0.0_aces-v2.0_ocio-v2.4.ocio"

(***************************************************************************)
(* The exposure bands: calls of the fragment builder and runs of the       *)
(* generator that uses it.                                                 *)
(***************************************************************************)
NextBands ==
    \/ CallExpoBands
    \/ RunExposureBands

SpecBands == InitFragments /\ [][NextBands]_vars

\* the tokens of a fragment are those of one band per offset, in the order
\* of the offsets: "-i" and the source, "--cut" and a strip, "--mulc" and a
\* factor, the extra tokens, the label option and the signed offset; then
\* the one "--mosaic" directive
BandsInOrder(fragment, src_path, extra, offsets) ==
    LET L == 6 + Len(extra) + 2
        N == Len(offsets)
    IN /\ Len(fragment) = N * L + 2
       /\ \A i \in 1..N :
             LET b == (i - 1) * L
             IN /\ SubSeq(fragment, b + 1, b + 3)
                     = <<"-i", PathToken(src_path), "--cut">>
                /\ fragment[b + 5] = "--mulc"
                /\ SubSeq(fragment, b + 7, b + 6 + Len(extra)) = extra
                /\ SubSeq(fragment, b + L - 1, b + L)
                     = <<BandLabelOption, SignedLabel(offsets[i])>>
       /\ \A i \in 1..(N - 1) : offsets[i] < offsets[i + 1]
       /\ fragment[N * L + 1] = "--mosaic"
       /\ \A j \in 1..Len(fragment) : fragment[j] = "--mosaic" => j = N * L + 1

\* C25: in the exposure-band fragment the tokens of each band are, in
\* order, "-i" and the source, "--cut" and the strip, "--mulc" and the
\* factor, the extra per-band tokens (for GeneratorExposureBands all the
\* tokens of the renderer's to_oiiotool_command(), once in every band), then
\* the label of the signed offset; the bands come in increasing offset order
\* and the single "--mosaic" directive comes after the last band.
C25_BandOrder ==
    /\ (frag.op = "oiiotool_generate_expo_bands" /\ frag.exc = NoExc)
        => BandsInOrder(frag.ret, frag.arg.src_path,
                        IF frag.arg.band_extra_args = None THEN <<>>
                        ELSE frag.arg.band_extra_args.items,
                        frag.bands)
    /\ (frag.op = "GeneratorExposureBands.run" /\ frag.exc = NoExc)
        => LET tokens == OcioConfigRenderer_to_oiiotool_command(
                             frag.arg.renderer).ret
               command == frag.ran[1]
           IN /\ Len(frag.ran) = 1
              /\ tokens # <<>>
              /\ BandsInOrder(SubSeq(command, 2, 1 + 7 * (8 + Len(tokens)) + 2),
                              frag.arg.src_paths[1], tokens,
                              <<-6, -4, -2, 0, 2, 4, 6>>)

C25_Witness ==
    /\ frag.op = "GeneratorExposureBands.run"
    /\ frag.exc = NoExc
    /\ frag.arg.renderer = RendererAgX
    /\ Len(frag.ran) = 1
    /\ LET tokens == OcioConfigRenderer_to_oiiotool_command(RendererAgX).ret
           L == 8 + Len(tokens)
           command == frag.ran[1]
       IN /\ Len(tokens) > 2
          /\ \E j \in 1..Len(tokens) : tokens[j] = "--ccmatrix:transpose=1"
          /\ \A i \in 1..7 : SubSeq(command, (i - 1) * L + 8, i * L - 1) = tokens
          /\ command[L + 1] = "-6"
          /\ command[4 * L + 1] = "+0"
          /\ command[7 * L + 1] = "+6"
          /\ command[7 * L + 2] = "--mosaic"

RECURSIVE Pow5(_)
Pow5(k) == IF k = 0 THEN 1 ELSE 5 * Pow5(k - 1)

RECURSIVE ZeroPad(_, _)
\* the decimal digits of n, padded with zeros on the left to the width
ZeroPad(n, width) ==
    IF width = 0 THEN ""
    ELSE ZeroPad(n \div 10, width - 1) \o ToString(n % 10)

\* 2^e written out in full: an integer for e >= 0, and for e = -k the k
\* decimals of 5^k / 10^k
ExactPow2(e) ==
    IF e >= 0 THEN ToString(Pow2(e))
    ELSE "0." \o ZeroPad(Pow5(-e), -e)

RECURSIVE ValuesOf(_, _)
\* the tokens that follow an option in a command, in order
ValuesOf(command, option) ==
    IF Len(command) < 2 THEN <<>>
    ELSE IF Head(command) = option
    THEN <<command[2]>> \o ValuesOf(Tail(Tail(command)), option)
    ELSE ValuesOf(Tail(command), option)

\* C26: the factor after "--mulc" of a band with exposure offset e is 2^e
\* for every generated offset, negative ones included; for 7 bands and step
\* 2 the factors are 1/64, 1/16, 1/4, 1, 4, 16, 64.
C26_MulcIsPow2 ==
    (frag.op = "oiiotool_generate_expo_bands" /\ frag.exc = NoExc)
    => /\ ValuesOf(frag.ret, "--mulc")
            = [i \in 1..Len(frag.bands) |-> ExactPow2(frag.bands[i])]
       /\ (frag.arg.band_number = 7 /\ frag.arg.band_exposure_offset = 2)
            => ValuesOf(frag.ret, "--mulc")
                 = <<"0.015625", "0.0625", "0.25", "1", "4", "16", "64">>

\* C30: for every image count n >= 1 the grid of oiiotool_auto_mosaic is
\* near-square and tight: columns * rows >= n, (rows - 1) * columns < n, and
\* 0 <= columns - rows <= 1.
C30_NearSquare ==
    (frag.op = "oiiotool_auto_mosaic" /\ frag.arg.image_number >= 1)
    => LET n == frag.arg.image_number
       IN /\ frag.exc = NoExc
          /\ Len(frag.ret) = 2
          /\ \E columns \in 1..n, rows \in 1..n :
                frag.ret[2] = ToString(columns) \o "x" \o ToString(rows)
          /\ \A columns \in 1..n, rows \in 1..n :
                frag.ret[2] = ToString(columns) \o "x" \o ToString(rows)
                => /\ columns * rows >= n
                   /\ (rows - 1) * columns < n
                   /\ 0 <= columns - rows
                   /\ columns - rows <= 1

C30_Witness ==
    /\ frag.op = "oiiotool_auto_mosaic"
    /\ frag.arg.image_number = 7
    /\ frag.ret = <<"--mosaic", "3x3">>

\* C24: the descriptors of ACES2Builder and NativeBuilder are derived from
\* the one of ACES2gmBuilder by overriding fields only: config_path,
\* src_colorspace, srgb_lin, display and source_url are those of the base
\* descriptor, the look is empty, the view of the native descriptor differs
\* from the base view, and the base descriptor is not modified.
C24_DerivedDescriptors ==
    call.op = "dataclasses.replace"
    => LET base == ACES2gmBuilder_get_renderer(
                       [cls |-> "ACES2gmBuilder", path |-> call.origin.path])
           derived == get_renderer(call.origin)
       IN /\ call.exc = NoExc
          /\ call.ret = derived
          /\ DOMAIN derived = DOMAIN base
          /\ \A f \in {"config_path", "src_colorspace", "srgb_lin", "display",
                       "source_url"} :
                derived[f] = base[f] /\ derived[f] = call.arg[f]
          /\ derived.look = ""
          /\ base.look # ""
          /\ call.origin.cls = "NativeBuilder" => derived.view # base.view
          /\ descriptor = call.arg
          /\ [descriptor EXCEPT !.filename = base.filename] = base

C24_Witness ==
    /\ call.op = "dataclasses.replace"
    /\ call.origin.cls = "NativeBuilder"
    /\ call.ret.view = "Un-tone-mapped"
    /\ call.ret.look = ""
    /\ descriptor.view = "ACES 2.0 - SDR 100 nits (Rec.709)"
    /\ descriptor.look = "ACES 1.3 Reference Gamut Compression"
    /\ call.ret.config_path = descriptor.config_path

(***************************************************************************)
(* site-build: the context objects given to the page templates.            *)
(***************************************************************************)
\* CtxRender.from_comparison: reads the name and the filename of the
\* renderer of the render
CtxRender_from_comparison(comparison) ==
    IF comparison.renderer = None THEN Raise("AttributeError")
    ELSE Ok([renderer_name |-> comparison.renderer.name,
             renderer_id |-> comparison.renderer.filename,
             path |-> PathStr(comparison.dst_path)])

\* a dict as the sequence of its items in insertion order
DictHas(dict, key) == \E i \in DOMAIN dict : dict[i].key = key

\* dict.get(key), None for a missing key
DictGet(dict, key) ==
    IF DictHas(dict, key)
    THEN dict[CHOOSE i \in DOMAIN dict : dict[i].key = key].value
    ELSE None

\* dict[key] = value
DictSet(dict, key, value) ==
    IF DictHas(dict, key)
    THEN [i \in DOMAIN dict |->
            IF dict[i].key = key THEN [key |-> key, value |-> value]
            ELSE dict[i]]
    ELSE Append(dict, [key |-> key, value |-> value])

RECURSIVE SortRenders(_, _, _)
\* the first loop of CtxComparison.from_session: the renders of the combined
\* generator go to combined_by_generators under their shortname, the others
\* are appended to the list of their shortname in render_by_generators
SortRenders(remaining, render_by_generators, combined_by_generators) ==
    IF remaining = <<>>
    THEN Ok([render_by_generators |-> render_by_generators,
             combined_by_generators |-> combined_by_generators])
    ELSE LET render == Head(remaining)
             generator_name == shortname(render.generator.cls)
         IN IF generator_name = shortname("GeneratorCombined")
            THEN LET ctx == CtxRender_from_comparison(render)
                 IN IF ctx.exc # NoExc THEN Raise(ctx.exc)
                    ELSE SortRenders(Tail(remaining), render_by_generators,
                             DictSet(combined_by_generators, generator_name,
                                     ctx.ret))
            ELSE SortRenders(Tail(remaining),
                     DictSet(render_by_generators, generator_name,
                         Append(IF DictHas(render_by_generators, generator_name)
                                THEN DictGet(render_by_generators, generator_name)
                                ELSE <<>>,
                                render)),
                     combined_by_generators)

RECURSIVE CtxGenerators(_, _)
\* the second loop of CtxComparison.from_session: one CtxGenerator per key of
\* render_by_generators
CtxGenerators(items, combined_by_generators) ==
    IF items = <<>> THEN Ok(<<>>)
    ELSE LET ctxs == MapSeqExc(CtxRender_from_comparison, Head(items).value)
         IN IF ctxs.exc # NoExc THEN Raise(ctxs.exc)
            ELSE LET cg == [name |-> Head(items).key,
                            renders |-> ctxs.ret,
                            combined |-> DictGet(combined_by_generators,
                                                 Head(items).key)]
                     rest == CtxGenerators(Tail(items), combined_by_generators)
                 IN IF rest.exc # NoExc THEN Raise(rest.exc)
                    ELSE Ok(<<cg>> \o rest.ret)

\* CtxComparison.from_session; asset stands for the identifier and the
\* metadata read from the asset of the session
CtxComparison_from_session(u_session) ==
    LET sorted == SortRenders(u_session.renders, <<>>, <<>>)
    IN IF sorted.exc # NoExc THEN Raise(sorted.exc)
       ELSE LET cgs == CtxGenerators(sorted.ret.render_by_generators,
                                     sorted.ret.combined_by_generators)
            IN IF cgs.exc # NoExc THEN Raise(cgs.exc)
               ELSE Ok([asset |-> u_session.asset, generators |-> cgs.ret])

\* the longest session given to from_session
MaxSessionRenders == 3

\* the renders of a session as comparisons-generate names them: one
\* destination per generator and renderer
SiteRenders ==
    LET dst(g, r) == PathV(FALSE, <<<<g>>, <<r>>>>)
    IN {[generator |-> [cls |-> "GeneratorExposureBands",
                        params |-> [band_offset |-> 45]],
         renderer |-> RendererAgX, src_paths |-> <<PathSrcA>>,
         dst_path |-> dst("e", "a")],
        [generator |-> [cls |-> "GeneratorExposureBands",
                        params |-> [band_offset |-> 45]],
         renderer |-> RendererNative, src_paths |-> <<PathSrcA>>,
         dst_path |-> dst("e", "n")],
        [generator |-> [cls |-> "GeneratorFull", params |-> [max_height |-> 864]],
         renderer |-> RendererAgX, src_paths |-> <<PathSrcA>>,
         dst_path |-> dst("f", "a")],
        [generator |-> [cls |-> "GeneratorFull", params |-> [max_height |-> 864]],
         renderer |-> RendererNative, src_paths |-> <<PathSrcA>>,
         dst_path |-> dst("f", "n")],
        [generator |-> [cls |-> "GeneratorCombined", params |-> <<>>],
         renderer |-> RendererAgX, src_paths |-> <<PathSrcB, PathSrcA>>,
         dst_path |-> dst("c", "a")],
        [generator |-> [cls |-> "GeneratorCombined", params |-> <<>>],
         renderer |-> None, src_paths |-> <<PathSrcB, PathSrcA>>,
         dst_path |-> dst("c", "c")]}

SiteSessions ==
    {[asset |-> ImageAsset(PathAsset), renders |-> rs] :
        rs \in UNION {[1..n -> SiteRenders] : n \in 0..MaxSessionRenders}}

BuildContext ==
    /\ call = NoCall
    /\ \E u_session \in SiteSessions :
        call' = Called("CtxComparison.from_session", None, u_session,
                       CtxComparison_from_session(u_session))
    /\ UNCHANGED <<asset, renders, manifest, descriptor, frag, disk, proc>>

NextSite == BuildContext

SpecSite == InitFragments /\ [][NextSite]_vars

\* the renders of a session whose generator has the shortname
RendersOf(u_session, name) ==
    SelectSeq(u_session.renders,
              LAMBDA render : shortname(render.generator.cls) = name)

\* C29: CtxComparison.from_session loses no render: every render that is
\* not of the combined generator appears exactly once, in session order, in
\* the renders of the CtxGenerator named by its shortname, and every render
\* of the combined generator is exposed as the combined entry of a
\* CtxGenerator.
C29_NoRenderLost ==
    call.op = "CtxComparison.from_session"
    => /\ call.exc = NoExc
       /\ LET generators == call.ret.generators
          IN /\ \A i \in DOMAIN generators, j \in DOMAIN generators :
                  generators[i].name = generators[j].name => i = j
             /\ \A i \in DOMAIN generators :
                  /\ generators[i].name # shortname("GeneratorCombined")
                  /\ MapSeqExc(CtxRender_from_comparison,
                               RendersOf(call.arg, generators[i].name))
                       = Ok(generators[i].renders)
             /\ \A k \in DOMAIN call.arg.renders :
                  LET render == call.arg.renders[k]
                  IN IF render.generator.cls = "GeneratorCombined"
                     THEN \E i \in DOMAIN generators :
                            Ok(generators[i].combined)
                              = CtxRender_from_comparison(render)
                     ELSE \E i \in DOMAIN generators :
                            generators[i].name = shortname(render.generator.cls)

(***************************************************************************)
(* scripts/renderer-build.py, run from the command line or by              *)
(* build_renderers of site/site-build.py.                                  *)
(***************************************************************************)
\* the number of times a script is started in one behaviour
MaxRuns == 3

\* the characters of the identifiers the scripts are given
Chars(text) ==
    CASE text = "AgX" -> <<"A", "g", "X">>
      [] text = "native" -> <<"n", "a", "t", "i", "v", "e">>
      [] text = "agx" -> <<"a", "g", "x">>

\* the identifiers given on the command line; no builder has "agx"
BuildIdentifiers == {"AgX", "native", "agx"}

\* the directory build_renderers is given
DstDir == PathV(TRUE, <<<<"r">>>>)

\* dst_dir / renderer_id
RendererDir(dst_dir, renderer_id) == PathDiv(dst_dir, <<Chars(renderer_id)>>)

\* the target directories given on the command line
TargetDirs == {RendererDir(DstDir, id) : id \in {"AgX", "native"}}

\* the lists of identifiers build_renderers is given
RendererIdLists == {<<"AgX">>, <<"native", "AgX">>, <<"AgX", "agx">>}

\* a file of a directory: its path, the run of the script that wrote it and,
\* for a descriptor, the document written
FileV(path, run, data) == [path |-> path, run |-> run, data |-> data]

\* path.exists() for a directory
Exists(d, path) == path \in DOMAIN d

\* shutil.rmtree(path)
shutil_rmtree(d, path) == [p \in DOMAIN d \ {path} |-> d[p]]

\* path.mkdir()
Path_mkdir(d, path) ==
    IF Exists(d, path) THEN [exc |-> "FileExistsError", disk |-> d]
    ELSE [exc |-> NoExc,
          disk |-> [p \in DOMAIN d \cup {path} |-> IF p = path THEN {} ELSE d[p]]]

\* writing a file of a directory: a file of the same path is replaced
WriteFile(d, dir, file) ==
    [d EXCEPT ![dir] = {f \in @ : f.path # file.path} \cup {file}]

\* the ways a build ends: it returns, the download raises, or a step after
\* the download raises
BuildOutcomes == {"ok", "download fails", "later step fails"}

\* AgXBuilder.build: the archive is downloaded into the directory, extracted
\* and removed, and the config must then exist
AgXBuilder_build(self, d, run, outcome) ==
    LET zip == FileV(PathDiv(self.path, <<<<"A", "g", "X", ".", "z", "i", "p">>>>),
                     run, None)
        config == FileV(get_ocio_config_path(self), run, None)
    IN CASE outcome = "download fails" -> [exc |-> "URLError", disk |-> d]
         [] outcome = "later step fails" ->
                [exc |-> "BadZipFile", disk |-> WriteFile(d, self.path, zip)]
         [] outcome = "ok" ->
                [exc |-> NoExc, disk |-> WriteFile(d, self.path, config)]

\* ACES2gmBuilder.build, inherited by NativeBuilder: the config is downloaded
\* to its path, then patched, validated and written again
ACES2gmBuilder_build(self, d, run, outcome) ==
    LET config == FileV(get_ocio_config_path(self), run, None)
    IN CASE outcome = "download fails" -> [exc |-> "URLError", disk |-> d]
         [] outcome = "later step fails" ->
                [exc |-> "Exception", disk |-> WriteFile(d, self.path, config)]
         [] outcome = "ok" ->
                [exc |-> NoExc, disk |-> WriteFile(d, self.path, config)]

\* builder.build()
build(self, d, run, outcome) ==
    IF self.cls = "AgXBuilder" THEN AgXBuilder_build(self, d, run, outcome)
    ELSE ACES2gmBuilder_build(self, d, run, outcome)

\* the arguments of the script, as texts
ArgvV(u_identifier, target_dir, force_overwrite) ==
    [identifier |-> u_identifier, target_dir |-> PathStr(target_dir),
     force_overwrite |-> force_overwrite]

\* variant of get_cli that takes the first builder for an identifier that is
\* not among the choices
get_cli_fallback(argv) ==
    Ok([identifier |->
            IF argv.identifier \in {identifier(RENDERER_BUILDERS[i]) :
                                       i \in DOMAIN RENDERER_BUILDERS}
            THEN argv.identifier ELSE identifier(RENDERER_BUILDERS[1]),
        target_dir |-> PathOf(argv.target_dir),
        force_overwrite |-> argv.force_overwrite])

\* get_cli: the identifier must be one of the choices, the target directory
\* is made a Path; the parser ends the script with status 2 otherwise
get_cli(argv) ==
    IF argv.identifier \in {identifier(RENDERER_BUILDERS[i]) :
                               i \in DOMAIN RENDERER_BUILDERS}
    THEN Ok([identifier |-> argv.identifier,
             target_dir |-> PathOf(argv.target_dir),
             force_overwrite |-> argv.force_overwrite])
    ELSE Raise("SystemExit")

\* variant of the test of main that skips every existing directory
skip_existing_forced(d, u_target_dir, u_force_overwrite) ==
    Exists(d, u_target_dir)

\* main: u_target_dir.exists() and not u_force_overwrite
skip_existing(d, u_target_dir, u_force_overwrite) ==
    Exists(d, u_target_dir) /\ ~u_force_overwrite

\* the files that renderer_dir.glob("*.json") finds
GlobJson(d, dir) ==
    IF ~Exists(d, dir) THEN {}
    ELSE {f \in d[dir] :
            /\ f.path.root = dir.root
            /\ Len(f.path.parts) = Len(dir.parts) + 1
            /\ SubSeq(f.path.parts, 1, Len(dir.parts)) = dir.parts
            /\ LET name == f.path.parts[Len(f.path.parts)]
               IN /\ Len(name) >= 5
                  /\ SubSeq(name, Len(name) - 4, Len(name))
                       = <<".", "j", "s", "o", "n">>}

\* one more entry in the record of what the script did; the entry keeps the
\* files of the target directory at that moment
Logged(p, d, event) ==
    Append(p.log, [event |-> event,
                   exists |-> Exists(d, p.cli.target_dir),
                   files |-> IF Exists(d, p.cli.target_dir)
                             THEN d[p.cli.target_dir] ELSE {}])

\* the script ends
Ended(p, status, exc) == [p EXCEPT !.pc = "idle", !.exit = status, !.exc = exc]

InitBuild ==
    /\ asset = ImageAsset(PathAsset)
    /\ renders = <<>>
    /\ manifest = None
    /\ descriptor = None
    /\ call = NoCall
    /\ frag = NoFrag
    /\ disk = NoDisk
    /\ proc = NoProc

\* python renderer-build.py identifier target_dir [--force-overwrite]
StartScript ==
    /\ proc.pc = "idle"
    /\ proc.runs < MaxRuns
    /\ \E u_identifier \in BuildIdentifiers, target_dir \in TargetDirs,
          force_overwrite \in BOOLEAN :
        proc' = [NoProc EXCEPT !.pc = "get_cli", !.runs = proc.runs + 1,
                               !.caller = "cli",
                               !.argv = ArgvV(u_identifier, target_dir,
                                              force_overwrite),
                               !.before = disk]
    /\ UNCHANGED <<asset, renders, manifest, descriptor, call, frag, disk>>

\* build_renderers(dst_dir, renderer_ids)
StartBuildRenderers ==
    /\ proc.pc = "idle"
    /\ proc.runs < MaxRuns
    /\ \E renderer_ids \in RendererIdLists :
        proc' = [NoProc EXCEPT !.pc = "for renderer_id", !.runs = proc.runs,
                               !.caller = "build_renderers",
                               !.requested = renderer_ids,
                               !.renderer_ids = renderer_ids,
                               !.before = disk]
    /\ UNCHANGED <<asset, renders, manifest, descriptor, call, frag, disk>>

\* build_renderers: the head of the loop sets sys.argv and runs the script;
\* after the last identifier the list of renderers is returned
NextRendererId ==
    /\ proc.pc = "for renderer_id"
    /\ IF proc.renderer_ids = <<>>
       THEN proc' = Ended(proc, 0, NoExc)
       ELSE proc' = [proc EXCEPT
                !.pc = "get_cli", !.runs = @ + 1,
                !.argv = ArgvV(Head(proc.renderer_ids),
                               RendererDir(DstDir, Head(proc.renderer_ids)),
                               FALSE),
                !.cli = NoProc.cli, !.BuilderT = None, !.builder = None,
                !.log = <<>>, !.before = disk]
    /\ UNCHANGED <<asset, renders, manifest, descriptor, call, frag, disk>>

\* main: cli = get_cli(argv)
GetCli ==
    /\ proc.pc = "get_cli"
    /\ LET cli == get_cli(proc.argv)
       IN IF cli.exc # NoExc
          THEN proc' = Ended([proc EXCEPT !.log = Append(@,
                                 [event |-> "stderr", exists |-> FALSE,
                                  files |-> {}])],
                             2, cli.exc)
          ELSE proc' = [proc EXCEPT !.pc = "lookup", !.cli = cli.ret]
    /\ UNCHANGED <<asset, renders, manifest, descriptor, call, frag, disk>>

\* main: BuilderT = RENDERER_BUILDERS_BY_ID.get(u_identifier), and the exit
\* with status 1 when there is none
LookupBuilderT ==
    /\ proc.pc = "lookup"
    /\ LET BuilderT == RENDERER_BUILDERS_BY_ID_get(proc.cli.identifier)
       IN IF BuilderT = None
          THEN proc' = Ended([proc EXCEPT !.log = Logged(proc, disk, "stderr")],
                             1, "SystemExit")
          ELSE proc' = [proc EXCEPT !.pc = "exists", !.BuilderT = BuilderT]
    /\ UNCHANGED <<asset, renders, manifest, descriptor, call, frag, disk>>

\* main: an existing directory is skipped unless the overwrite is forced
CheckExists ==
    /\ proc.pc = "exists"
    /\ IF skip_existing(disk, proc.cli.target_dir, proc.cli.force_overwrite)
       THEN proc' = [proc EXCEPT !.pc = "return",
                                 !.log = Logged(proc, disk, "skip")]
       ELSE proc' = [proc EXCEPT !.pc = "rmtree"]
    /\ UNCHANGED <<asset, renders, manifest, descriptor, call, frag, disk>>

\* main: if u_target_dir.exists(): shutil.rmtree(u_target_dir)
Rmtree ==
    /\ proc.pc = "rmtree"
    /\ IF Exists(disk, proc.cli.target_dir)
       THEN /\ disk' = shutil_rmtree(disk, proc.cli.target_dir)
            /\ proc' = [proc EXCEPT !.pc = "mkdir",
                                    !.log = Logged(proc, disk', "rmtree")]
       ELSE /\ disk' = disk
            /\ proc' = [proc EXCEPT !.pc = "mkdir"]
    /\ UNCHANGED <<asset, renders, manifest, descriptor, call, frag>>

\* main: u_target_dir.mkdir()
Mkdir ==
    /\ proc.pc = "mkdir"
    /\ LET made == Path_mkdir(disk, proc.cli.target_dir)
       IN /\ disk' = made.disk
          /\ IF made.exc # NoExc
             THEN proc' = Ended(proc, 1, made.exc)
             ELSE proc' = [proc EXCEPT !.pc = "builder",
                                       !.log = Logged(proc, disk', "mkdir")]
    /\ UNCHANGED <<asset, renders, manifest, descriptor, call, frag>>

\* main: builder = BuilderT(path=u_target_dir)
Instantiate ==
    /\ proc.pc = "builder"
    /\ proc' = [proc EXCEPT !.pc = "build",
                            !.builder = [cls |-> proc.BuilderT.name,
                                         path |-> proc.cli.target_dir]]
    /\ UNCHANGED <<asset, renders, manifest, descriptor, call, frag, disk>>

\* main: builder.build(); an exception ends the script with status 1
Build ==
    /\ proc.pc = "build"
    /\ \E outcome \in BuildOutcomes :
        LET built == build(proc.builder, disk, proc.runs, outcome)
            started == Logged(proc, disk, "build")
        IN /\ disk' = built.disk
           /\ IF built.exc # NoExc
              THEN proc' = Ended([proc EXCEPT !.log = started], 1, built.exc)
              ELSE proc' = [proc EXCEPT
                               !.pc = "write",
                               !.log = Append(started,
                                   [event |-> "built", exists |-> TRUE,
                                    files |-> disk'[proc.cli.target_dir]])]
    /\ UNCHANGED <<asset, renders, manifest, descriptor, call, frag>>

\* main: the descriptor of the builder is written as
\* u_target_dir / f"{renderer.filename}.json"
WriteDescriptor ==
    /\ proc.pc = "write"
    /\ LET renderer == get_renderer(proc.builder)
           as_json == OcioConfigRenderer_to_json(renderer)
           renderer_path ==
               PathDiv(proc.cli.target_dir,
                       <<Chars(renderer.filename)
                         \o <<".", "j", "s", "o", "n">>>>)
       IN IF as_json.exc # NoExc
          THEN /\ disk' = disk
               /\ proc' = Ended(proc, 1, as_json.exc)
          ELSE /\ disk' = WriteFile(disk, proc.cli.target_dir,
                                    FileV(renderer_path, proc.runs, as_json.ret))
               /\ proc' = [proc EXCEPT !.pc = "return",
                                       !.log = Logged(proc, disk', "write")]
    /\ UNCHANGED <<asset, renders, manifest, descriptor, call, frag>>

\* main returns to the command line: the script ends with status 0
ExitScript ==
    /\ proc.pc = "return"
    /\ proc.caller = "cli"
    /\ proc' = Ended(proc, 0, NoExc)
    /\ UNCHANGED <<asset, renders, manifest, descriptor, call, frag, disk>>

\* build_renderers, after the script: the first "*.json" of the directory is
\* read and its renderer appended; next() raises when there is none
LoadRenderer ==
    /\ proc.pc = "return"
    /\ proc.caller = "build_renderers"
    /\ LET renderer_dir == RendererDir(DstDir, Head(proc.renderer_ids))
           found == GlobJson(disk, renderer_dir)
       IN IF found = {}
          THEN proc' = Ended(proc, 1, "StopIteration")
          ELSE \E renderer_file \in found :
                 LET renderer == OcioConfigRenderer_from_json(renderer_file.data)
                 IN IF renderer.exc # NoExc
                    THEN proc' = Ended(proc, 1, renderer.exc)
                    ELSE proc' = [proc EXCEPT
                                     !.pc = "for renderer_id",
                                     !.renderer_ids = Tail(@),
                                     !.renderers = Append(@, renderer.ret)]
    /\ UNCHANGED <<asset, renders, manifest, descriptor, call, frag, disk>>

NextBuild ==
    \/ StartScript
    \/ StartBuildRenderers
    \/ NextRendererId
    \/ GetCli
    \/ LookupBuilderT
    \/ CheckExists
    \/ Rmtree
    \/ Mkdir
    \/ Instantiate
    \/ Build
    \/ WriteDescriptor
    \/ ExitScript
    \/ LoadRenderer

SpecBuild == InitBuild /\ [][NextBuild]_vars

\* the events of the record of the script
Events(log) == {log[i].event : i \in DOMAIN log}

\* the script was given an identifier that no builder has
UnknownGiven == proc.argv.identifier \in BuildIdentifiers \ DOMAIN RENDERER_BUILDERS_BY_ID

\* C21: renderer-build given an identifier that is not a key of
\* RENDERER_BUILDERS_BY_ID reports an error and ends with a nonzero exit
\* status, without instantiating or running any builder and without
\* creating, deleting or modifying the target directory.
C21_UnknownIdentifier ==
    UnknownGiven
    => /\ disk = proc.before
       /\ proc.BuilderT = None
       /\ proc.builder = None
       /\ Events(proc.log) \subseteq {"stderr"}
       /\ proc.pc \in {"get_cli", "lookup", "idle"}
       /\ proc.pc = "idle"
            => /\ proc.exit \in {1, 2}
               /\ proc.exc = "SystemExit"
               /\ Events(proc.log) = {"stderr"}

C21_Witness ==
    /\ UnknownGiven
    /\ proc.pc = "idle"
    /\ proc.exit = 2
    /\ Len(proc.log) = 1
    /\ Exists(disk, PathOf(proc.argv.target_dir))
    /\ disk[PathOf(proc.argv.target_dir)] # {}

\* C22: when the target directory already exists, a run without
\* --force-overwrite does not run builder.build() and leaves the directory
\* and its contents as they were; a run with --force-overwrite removes the
\* directory and creates it again, empty, before build() runs, and nothing of
\* the previous content survives.
C22_ExistingTarget ==
    LET target == proc.cli.target_dir
    IN (proc.BuilderT # None /\ Exists(proc.before, target))
       => IF ~proc.cli.force_overwrite
          THEN /\ disk = proc.before
               /\ proc.builder = None
               /\ Events(proc.log) \subseteq {"skip"}
               /\ proc.pc \in {"return", "idle", "for renderer_id"}
                    => Events(proc.log) = {"skip"}
          ELSE /\ "skip" \notin Events(proc.log)
               /\ proc.log = <<>> => disk = proc.before
               /\ proc.log # <<>>
                    => /\ proc.log[1].event = "rmtree"
                       /\ ~proc.log[1].exists
                       /\ Exists(disk, target)
                            => \A f \in disk[target] :
                                  f \notin proc.before[target] /\ f.run = proc.runs
               /\ \A i \in DOMAIN proc.log :
                    proc.log[i].event = "build"
                    => /\ i = 3
                       /\ proc.log[2].event = "mkdir"
                       /\ proc.log[2].exists /\ proc.log[2].files = {}
                       /\ proc.log[3].exists /\ proc.log[3].files = {}
               /\ proc.pc = "return" => "built" \in Events(proc.log)

C22_Witness ==
    /\ proc.BuilderT # None
    /\ proc.cli.force_overwrite
    /\ Exists(proc.before, proc.cli.target_dir)
    /\ proc.before[proc.cli.target_dir] # {}
    /\ proc.pc = "return"
    /\ Len(proc.log) = 5
    /\ GlobJson(disk, proc.cli.target_dir) # {}

\* C23: a renderer whose build failed part-way, leaving its target directory
\* without the descriptor JSON, is never afterwards treated as built: a later
\* run for the same identifier and directory without --force-overwrite does
\* not skip it, and build_renderers loads no descriptor from that directory.
C23_FailedBuildNotBuilt ==
    /\ (/\ proc.BuilderT # None
        /\ ~proc.cli.force_overwrite
        /\ Exists(proc.before, proc.cli.target_dir)
        /\ GlobJson(proc.before, proc.cli.target_dir) = {})
       => "skip" \notin Events(proc.log)
    /\ \A i \in DOMAIN proc.renderers :
          \E f \in GlobJson(disk, RendererDir(DstDir, proc.renderers[i].filename)) :
             OcioConfigRenderer_from_json(f.data) = Ok(proc.renderers[i])

\* C28: in main the descriptor JSON <target_dir>/<filename>.json is written
\* only after builder.build() has returned without error, and whenever main
\* returns normally the target directory contains that JSON, so that
\* build_renderers loads exactly one descriptor per requested identifier, in
\* the order of the request.
C28_DescriptorAfterBuild ==
    /\ \A i \in DOMAIN proc.log :
          proc.log[i].event = "write"
          => \E j \in 1..(i - 1) : proc.log[j].event = "built"
    /\ proc.pc = "return"
          => \E f \in GlobJson(disk, proc.cli.target_dir) :
                f.path = PathDiv(proc.cli.target_dir,
                                 <<Chars(proc.cli.identifier)
                                   \o <<".", "j", "s", "o", "n">>>>)
    /\ (proc.caller = "build_renderers" /\ proc.pc = "idle" /\ proc.exit = 0)
          => /\ Len(proc.renderers) = Len(proc.requested)
             /\ \A i \in DOMAIN proc.requested :
                   proc.renderers[i].filename = proc.requested[i]

(***************************************************************************)
(* site/site-publish.py : main and publish_context.                        *)
(***************************************************************************)
\* the number of times site-publish is started in one behaviour
MaxPublishes == 2

\* BUILD_DIR, the directory of the gh-pages worktree
BUILD_DIR == PathV(TRUE, <<<<"s">>>>)

\* u_work_dir, the directory site-build works in
WORK_DIR == PathV(TRUE, <<<<"w">>>>)

RECURSIVE RStrip(_, _)
\* str.rstrip(char)
RStrip(chars, char) ==
    IF chars # <<>> /\ chars[Len(chars)] = char
    THEN RStrip(SubSeq(chars, 1, Len(chars) - 1), char)
    ELSE chars

\* what git status --porcelain prints in the worktree: nothing, or a line
\* per changed file
StatusOutputs == {<<>>, <<"A", " ", " ", "i", "\n">>}

\* the commit messages: those of check_git_repo_state, or the one of the
\* dev mode
CommitMsgs == {<<"chore(doc): automatic build to gh-pages", "from commit">>}

DevCommitMsg == <<"! delete me (dev mode enabled)", "">>

\* gitget: the output of the command without trailing newlines, then
\* without trailing spaces
gitget(out) == RStrip(RStrip(out, "\n"), " ")

\* one more git command, or cleanup step, in the record of the script
Ran(p, cmd, ok, out) == Append(p.log, [cmd |-> cmd, ok |-> ok, out |-> out])

\* variant of the test of publish_context that commits in a dry run too
publish_after_status_always(changes, dry_run) ==
    IF changes = <<>> THEN "return" ELSE "commit"

\* publish_context after git status: nothing to commit returns, a dry run
\* returns, otherwise the commit follows
publish_after_status(changes, dry_run) ==
    IF changes = <<>> THEN "return"
    ELSE IF dry_run THEN "return"
    ELSE "commit"

\* site-publish has not been started
NoPublish ==
    [pc |-> "idle", runs |-> 0, dry_run |-> FALSE, commit_msg |-> <<"", "">>,
     log |-> <<>>, raised |-> NoExc, exit |-> -1, exc |-> NoExc]

InitPublish ==
    /\ asset = ImageAsset(PathAsset)
    /\ renders = <<>>
    /\ manifest = None
    /\ descriptor = None
    /\ call = NoCall
    /\ frag = NoFrag
    /\ disk = NoDisk
    /\ proc = NoPublish

\* main up to the with statement: the state of the repository is checked;
\* when the check fails the dev mode goes on with its own message and the
\* script ends with status 1 otherwise
StartPublish ==
    /\ proc.pc = "idle"
    /\ proc.runs < MaxPublishes
    /\ \E u_dev_mode \in BOOLEAN, u_preserve_work_dir \in BOOLEAN,
          checked \in BOOLEAN, commit_msgs \in CommitMsgs :
        LET started == [NoPublish EXCEPT !.runs = proc.runs + 1,
                                         !.dry_run = u_dev_mode]
            cleaned == IF Exists(disk, WORK_DIR) /\ ~u_preserve_work_dir
                       THEN shutil_rmtree(disk, WORK_DIR) ELSE disk
        IN IF checked
           THEN /\ proc' = [started EXCEPT !.pc = "worktree add",
                                           !.commit_msg = commit_msgs]
                /\ disk' = cleaned
           ELSE IF u_dev_mode
           THEN /\ proc' = [started EXCEPT
                               !.pc = "worktree add",
                               !.commit_msg = DevCommitMsg,
                               !.log = Ran(started, "stderr", TRUE, <<>>)]
                /\ disk' = cleaned
           ELSE /\ proc' = [started EXCEPT
                               !.exit = 1, !.exc = "SystemExit",
                               !.log = Ran(started, "stderr", TRUE, <<>>)]
                /\ disk' = disk
    /\ UNCHANGED <<asset, renders, manifest, descriptor, call, frag>>

\* publish_context: git worktree add build_dir gh-pages, before the try
WorktreeAdd ==
    /\ proc.pc = "worktree add"
    /\ \E ok \in BOOLEAN :
        IF ok /\ ~Exists(disk, BUILD_DIR)
        THEN /\ disk' = Path_mkdir(disk, BUILD_DIR).disk
             /\ proc' = [proc EXCEPT !.pc = "rm",
                                     !.log = Ran(proc, "worktree add", TRUE, <<>>)]
        ELSE /\ disk' = disk
             /\ proc' = [proc EXCEPT !.pc = "idle", !.exit = 1,
                                     !.exc = "CalledProcessError",
                                     !.log = Ran(proc, "worktree add", FALSE, <<>>)]
    /\ UNCHANGED <<asset, renders, manifest, descriptor, call, frag>>

\* publish_context: git rm -r * in the worktree
GitRm ==
    /\ proc.pc = "rm"
    /\ \E ok \in BOOLEAN :
        proc' = [proc EXCEPT !.pc = IF ok THEN "yield" ELSE "finally",
                             !.raised = IF ok THEN NoExc ELSE "CalledProcessError",
                             !.log = Ran(proc, "rm", ok, <<>>)]
    /\ UNCHANGED <<asset, renders, manifest, descriptor, call, frag, disk>>

\* the body of the with statement: site-build makes its work directory and
\* writes the site into the worktree, or raises
RunBuildScript ==
    /\ proc.pc = "yield"
    /\ \E ok \in BOOLEAN :
        /\ proc' = [proc EXCEPT !.pc = IF ok THEN "add" ELSE "finally",
                                !.raised = IF ok THEN NoExc ELSE "Exception",
                                !.log = Ran(proc, "site-build", ok, <<>>)]
        /\ LET worked == IF Exists(disk, WORK_DIR) THEN disk
                         ELSE Path_mkdir(disk, WORK_DIR).disk
           IN disk' = IF ok
                      THEN WriteFile(worked, BUILD_DIR,
                               FileV(PathDiv(BUILD_DIR, <<<<"i">>>>), proc.runs,
                                     None))
                      ELSE worked
    /\ UNCHANGED <<asset, renders, manifest, descriptor, call, frag>>

\* publish_context: git add --all
GitAdd ==
    /\ proc.pc = "add"
    /\ \E ok \in BOOLEAN :
        proc' = [proc EXCEPT !.pc = IF ok THEN "status" ELSE "finally",
                             !.raised = IF ok THEN NoExc ELSE "CalledProcessError",
                             !.log = Ran(proc, "add", ok, <<>>)]
    /\ UNCHANGED <<asset, renders, manifest, descriptor, call, frag, disk>>

\* publish_context: changes = git status --porcelain, and the two returns
GitStatus ==
    /\ proc.pc = "status"
    /\ \/ \E out \in StatusOutputs :
            proc' = [proc EXCEPT
                        !.pc = IF publish_after_status(gitget(out), proc.dry_run)
                                  = "commit"
                               THEN "commit" ELSE "finally",
                        !.log = Ran(proc, "status", TRUE, gitget(out))]
       \/ proc' = [proc EXCEPT !.pc = "finally",
                               !.raised = "CalledProcessError",
                               !.log = Ran(proc, "status", FALSE, <<>>)]
    /\ UNCHANGED <<asset, renders, manifest, descriptor, call, frag, disk>>

\* publish_context: git commit -m ... -m ...
GitCommit ==
    /\ proc.pc = "commit"
    /\ \E ok \in BOOLEAN :
        proc' = [proc EXCEPT !.pc = IF ok THEN "push" ELSE "finally",
                             !.raised = IF ok THEN NoExc ELSE "CalledProcessError",
                             !.log = Ran(proc, "commit", ok, <<>>)]
    /\ UNCHANGED <<asset, renders, manifest, descriptor, call, frag, disk>>

\* publish_context: git push origin gh-pages
GitPush ==
    /\ proc.pc = "push"
    /\ \E ok \in BOOLEAN :
        proc' = [proc EXCEPT !.pc = "finally",
                             !.raised = IF ok THEN NoExc ELSE "CalledProcessError",
                             !.log = Ran(proc, "push", ok, <<>>)]
    /\ UNCHANGED <<asset, renders, manifest, descriptor, call, frag, disk>>

\* publish_context, finally: shutil.rmtree(build_dir, ignore_errors=True);
\* a removal that fails is not reported
FinallyRmtree ==
    /\ proc.pc = "finally"
    /\ \E ok \in BOOLEAN :
        /\ disk' = IF ok THEN shutil_rmtree(disk, BUILD_DIR) ELSE disk
        /\ proc' = [proc EXCEPT !.pc = "prune",
                                !.log = Ran(proc, "rmtree", ok, <<>>)]
    /\ UNCHANGED <<asset, renders, manifest, descriptor, call, frag>>

\* publish_context, finally: git worktree prune; then the script ends, with
\* the exception that was raised if there is one
WorktreePrune ==
    /\ proc.pc = "prune"
    /\ \E ok \in BOOLEAN :
        LET exc == IF ok THEN proc.raised ELSE "CalledProcessError"
        IN proc' = [proc EXCEPT !.pc = "idle",
                                !.exc = exc,
                                !.exit = IF exc = NoExc THEN 0 ELSE 1,
                                !.log = Ran(proc, "worktree prune", ok, <<>>)]
    /\ UNCHANGED <<asset, renders, manifest, descriptor, call, frag, disk>>

NextPublish ==
    \/ StartPublish
    \/ WorktreeAdd
    \/ GitRm
    \/ RunBuildScript
    \/ GitAdd
    \/ GitStatus
    \/ GitCommit
    \/ GitPush
    \/ FinallyRmtree
    \/ WorktreePrune

SpecPublish == InitPublish /\ [][NextPublish]_vars

\* the positions of a command in the record of the script
Positions(log, cmd) == {i \in DOMAIN log : log[i].cmd = cmd}

====
